---------------------------- MODULE Spec2Model ----------------------------
(***************************************************************************)
(* ParkGenius: the wait-time prediction route (GET /api/predictions), the  *)
(* wait-time report route (POST /api/wait-times) and the data store they   *)
(* share.                                                                  *)
(*                                                                         *)
(* Conventions of the model                                                *)
(*   - time is an integer number of minutes since a Sunday 00:00 (local    *)
(*     time), so getDay() = 0 is Sunday as in JavaScript;                  *)
(*   - JavaScript numbers are modelled as exact rationals [n, d] (d > 0,   *)
(*     lowest terms); a confidence is reported in hundredths (72 = 0.72);  *)
(*   - Math.random() is a draw u of JitterDraws, standing for U = u/10;    *)
(*   - a null / absent value is the record Null; a wait_time of NULL in    *)
(*     the attractions table is NoWait.                                    *)
(***************************************************************************)
EXTENDS Integers, Sequences, FiniteSets, TLC

VARIABLES
    attractions,   \* table attractions: id -> row
    wait_times,    \* table wait_times: the observation log (a sequence of rows)
    weather_data,  \* table weather_data: a sequence of snapshots
    now,           \* the wall clock (minutes)
    request,       \* the GET /api/predictions request in flight, and its response
    tasks,         \* the generateWaitTimePrediction calls of the request
    reports,       \* the POST /api/wait-times requests, in flight or answered
    nreports,      \* number of reports received so far
    nticks,        \* number of clock ticks so far
    mathRandom,    \* the values Math.random() may return (in tenths)
    pin,           \* arguments of the last direct predictWaitTime call
    pout,          \* its return value
    weatherRoute,  \* the GET /api/weather requests in flight and their responses
    auth,          \* the state of a mounted useAuth hook
    component,     \* the state of a mounted WaitTimePredictions component
    debounced      \* the closure returned by debounce, and its timer

vars == <<attractions, wait_times, weather_data, now, request, tasks, reports,
          nreports, nticks, mathRandom, pin, pout, weatherRoute, auth, component,
          debounced>>

storeVars == <<attractions, wait_times, weather_data>>
routeVars == <<request, tasks, reports, nreports, nticks, mathRandom>>
pureVars  == <<pin, pout>>
otherVars == <<weatherRoute, auth, component, debounced>>

(***************************************************************************)
(* Values                                                                  *)
(***************************************************************************)
Null == [null |-> TRUE]

\* no weather request, no mounted hook or component, no debounced closure
OtherInit ==
    /\ weatherRoute = Null
    /\ auth = Null
    /\ component = Null
    /\ debounced = Null

NoWait == -1000

MinutesPerHour == 60
HoursPerDay == 24
DaysPerWeek == 7
MinutesPerDay == MinutesPerHour * HoursPerDay

\* Date.prototype.getHours / getDay of a time in minutes
getHours(t) == (t \div MinutesPerHour) % HoursPerDay
getDay(t) == (t \div MinutesPerDay) % DaysPerWeek

At(day, hour, minute) == day * MinutesPerDay + hour * MinutesPerHour + minute

Max(a, b) == IF a >= b THEN a ELSE b
Min(a, b) == IF a <= b THEN a ELSE b
Abs(a) == IF a >= 0 THEN a ELSE -a

RECURSIVE GCD(_, _)
GCD(a, b) == IF b = 0 THEN a ELSE GCD(b, a % b)

\* the rational n/d in lowest terms, d > 0
Rat(n, d) ==
    LET g == GCD(Abs(n), d)
    IN  IF n = 0 THEN [n |-> 0, d |-> 1] ELSE [n |-> n \div g, d |-> d \div g]

RMul(r, n, d) ==
    LET g1 == IF r.n = 0 THEN d ELSE GCD(Abs(r.n), d)
        g2 == GCD(n, r.d)
    IN  Rat((r.n \div g1) * (n \div g2), (r.d \div g2) * (d \div g1))

RAdd(r, s) == Rat(r.n * s.d + s.n * r.d, r.d * s.d)

RLess(r, s) == r.n * s.d < s.n * r.d

\* Math.round(x): the integer nearest to x, halves rounded up
MathRound(r) ==
    LET q == r.n \div r.d
        m == r.n % r.d
    IN  IF 2 * m >= r.d THEN q + 1 ELSE q

\* Math.round(x * n / d) computed without forming the product x * n
MathRoundMul(r, n, d) ==
    LET q  == r.n \div r.d
        m  == r.n % r.d
        a  == q * n
        qa == a \div d
        ma == a % d
        D  == r.d * d
        f  == ma * r.d + m * n
        qf == f \div D
        mf == f % D
    IN  qa + qf + (IF 2 * mf >= D THEN 1 ELSE 0)

RECURSIVE SumWait(_)
SumWait(s) == IF s = <<>> THEN 0 ELSE Head(s).wait_minutes + SumWait(Tail(s))


(***************************************************************************)
(* predictWaitTime (predictions route)                                     *)
(***************************************************************************)
MaxPredictedWait == 180
DefaultThrillLevel == 3
HighThrillLevel == 4
DefaultTemperature == 25
HotTemperature == 30
ColdTemperature == 10

\* attraction.details?.thrill_level || 3  (an absent level is stored as 0)
thrillLevelOf(attraction) ==
    IF attraction.thrill_level = 0 THEN DefaultThrillLevel ELSE attraction.thrill_level

\* weather.temperature || 25 and weather.precipitation || 0
temperatureOf(weather) ==
    IF weather.temperature = 0 THEN DefaultTemperature ELSE weather.temperature
precipitationOf(weather) == weather.precipitation

\* Time-based adjustments: the hour bands, first match wins
timeAdjust_lateStart(prediction, hour) ==
    IF hour >= 11 /\ hour <= 15 THEN RMul(prediction, 13, 10)
    ELSE IF hour >= 16 /\ hour <= 20 THEN RMul(prediction, 11, 10)
    ELSE IF hour <= 10 \/ hour >= 21 THEN RMul(prediction, 7, 10)
    ELSE prediction
timeAdjust(prediction, hour) ==
    IF hour >= 11 /\ hour <= 15 THEN RMul(prediction, 13, 10)
    ELSE IF hour >= 16 /\ hour <= 20 THEN RMul(prediction, 11, 10)
    ELSE IF hour <= 9 \/ hour >= 21 THEN RMul(prediction, 7, 10)
    ELSE prediction

\* Day of week adjustments
dayAdjust(prediction, dayOfWeek) ==
    IF dayOfWeek = 0 \/ dayOfWeek = 6 THEN RMul(prediction, 12, 10) ELSE prediction

\* Thrill level adjustments
thrillAdjust(prediction, attraction) ==
    IF thrillLevelOf(attraction) >= HighThrillLevel
    THEN RMul(prediction, 11, 10) ELSE prediction

\* Hot weather: temp > 30
temperatureAdjust(prediction, weather, attraction) ==
    IF temperatureOf(weather) > HotTemperature
    THEN IF attraction.type = "dark_ride"
         THEN RMul(prediction, 12, 10) ELSE RMul(prediction, 9, 10)
    ELSE prediction

\* Rain: precipitation > 0; the pair <<prediction, confidence>> is adjusted
precipitationAdjust_sameForAll(pc, weather, attraction) ==
    IF precipitationOf(weather) > 0
    THEN [prediction |-> RMul(pc.prediction, 15, 10),
          confidence |-> RMul(pc.confidence, 9, 10)]
    ELSE pc
precipitationAdjust(pc, weather, attraction) ==
    IF precipitationOf(weather) > 0
    THEN IF attraction.type = "dark_ride" \/ attraction.type = "show"
         THEN [prediction |-> RMul(pc.prediction, 15, 10),
               confidence |-> RMul(pc.confidence, 9, 10)]
         ELSE [prediction |-> RMul(pc.prediction, 6, 10),
               confidence |-> RMul(pc.confidence, 8, 10)]
    ELSE pc

\* Weather adjustments: only if (weather)
weatherAdjust_rainByDefault(pc, weather, attraction) ==
    precipitationAdjust(
        [prediction |-> IF weather # Null
                        THEN temperatureAdjust(pc.prediction, weather, attraction)
                        ELSE pc.prediction,
         confidence |-> pc.confidence],
        IF weather # Null THEN weather
        ELSE [temperature |-> DefaultTemperature, precipitation |-> 1],
        attraction)
weatherAdjust_rainOverridesHeat(pc, weather, attraction) ==
    IF weather # Null
    THEN IF precipitationOf(weather) > 0
         THEN precipitationAdjust(pc, weather, attraction)
         ELSE [prediction |-> temperatureAdjust(pc.prediction, weather, attraction),
               confidence |-> pc.confidence]
    ELSE pc
weatherAdjust(pc, weather, attraction) ==
    IF weather # Null
    THEN precipitationAdjust(
             [prediction |-> temperatureAdjust(pc.prediction, weather, attraction),
              confidence |-> pc.confidence], weather, attraction)
    ELSE pc

\* history.filter(h => Math.abs(new Date(h.timestamp).getHours() - hour) <= 1)
similarTimes(history, hour) ==
    LET Similar(h) == Abs(getHours(h.timestamp) - hour) <= 1
    IN  SelectSeq(history, Similar)

\* Historical pattern matching
historyAdjust(pc, history, hour) ==
    IF Len(history) > 0
    THEN LET sim == similarTimes(history, hour)
         IN  IF Len(sim) > 0
             THEN LET avgHistoricalWait == Rat(SumWait(sim), Len(sim))
                  IN  [prediction |-> RAdd(RMul(pc.prediction, 7, 10),
                                           RMul(avgHistoricalWait, 3, 10)),
                       confidence |-> RMul(pc.confidence, 11, 10)]
             ELSE [prediction |-> pc.prediction,
                   confidence |-> RMul(pc.confidence, 9, 10)]
    ELSE pc

\* randomFactor = 1 + (Math.random() - 0.5) * 0.1 with Math.random() = u/10,
\* as the fraction (95 + u) / 100
randomFactorNum(u) == 95 + u
randomFactorDen == 100

\* Math.max(0, Math.min(180, x))
clampWait_noUpper(x) == Max(0, x)
clampWait(x) == Max(0, Min(MaxPredictedWait, x))

\* Math.max(0.3, Math.min(1.0, confidence))
clampConfidence(c) ==
    LET lo == Rat(3, 10)
        hi == Rat(1, 1)
    IN  IF RLess(c, lo) THEN lo ELSE IF RLess(hi, c) THEN hi ELSE c

\* Math.round(confidence * 100) / 100, in hundredths
roundConfidence_noDivide(c) == MathRoundMul(c, 100, 1) * 100
roundConfidence(c) == MathRoundMul(c, 100, 1)

\* the state of the computation before the random variation is applied
preJitter(currentWait, minutesAhead, history, weather, attraction, clock) ==
    LET futureTime == clock + minutesAhead
        hour == getHours(futureTime)
        dayOfWeek == getDay(futureTime)
        p1 == timeAdjust(Rat(currentWait, 1), hour)
        p2 == dayAdjust(p1, dayOfWeek)
        p3 == thrillAdjust(p2, attraction)
        w  == weatherAdjust([prediction |-> p3, confidence |-> Rat(8, 10)],
                            weather, attraction)
    IN  historyAdjust(w, history, hour)

predictWaitTime(currentWait, minutesAhead, history, weather, attraction, clock, u) ==
    LET pc == preJitter(currentWait, minutesAhead, history, weather, attraction, clock)
    IN  [predicted_wait |->
             clampWait(MathRoundMul(pc.prediction, randomFactorNum(u), randomFactorDen)),
         confidence |-> roundConfidence(clampConfidence(pc.confidence))]

(***************************************************************************)
(* Direct calls of predictWaitTime: the arguments are drawn in PureInit,   *)
(* PurePredict applies the function.                                       *)
(***************************************************************************)
MaxHistory == 2

AttractionTypes == {"roller_coaster", "dark_ride", "show"}
JitterDraws == {0, 9}
DefaultWindows == <<15, 30, 60, 120>>

PureWaits == {-5, 0, 40, 150, 300}
PureThrills == {0, 5}
PureWeathers ==
    {Null} \cup [temperature : {DefaultTemperature, 35}, precipitation : {0, 2}]
PureClocks == {At(5, 12, 50), At(6, 23, 30), At(1, 9, 50), At(1, 15, 50)}
PureWindows == {15, 60, 120, 0, -30}
PureDraws == {0, 5, 9}
PureObservations == [timestamp : {At(4, 13, 0), At(3, 0, 10)}, wait_minutes : {0, 300}]

SeqsUpTo(S, n) == UNION {[1..k -> S] : k \in 0..n}

PureInputs ==
    [currentWait : PureWaits,
     minutesAhead : PureWindows,
     history : SeqsUpTo(PureObservations, MaxHistory),
     weather : PureWeathers,
     attraction : [type : AttractionTypes, thrill_level : PureThrills],
     clock : PureClocks,
     u : PureDraws]

PurePredict ==
    /\ pin # Null
    /\ pout = Null
    /\ pout' = predictWaitTime(pin.currentWait, pin.minutesAhead, pin.history,
                               pin.weather, pin.attraction, pin.clock, pin.u)
    /\ UNCHANGED <<pin, storeVars, now, routeVars, otherVars>>

(***************************************************************************)
(* generatePredictionFactors                                               *)
(***************************************************************************)
\* the day and hour tests read new Date(), not the projected time of a window
generatePredictionFactors_projected(history, weather, attraction, clock) ==
    LET futureTime == clock + DefaultWindows[Len(DefaultWindows)]
    IN  <<"historical_patterns", "time_of_day">>
        \o (IF weather # Null
            THEN <<"weather_conditions">>
                 \o (IF weather.precipitation > 0 THEN <<"precipitation">> ELSE <<>>)
                 \o (IF weather.temperature > HotTemperature
                        \/ weather.temperature < ColdTemperature
                     THEN <<"temperature_extreme">> ELSE <<>>)
            ELSE <<>>)
        \o (IF attraction.thrill_level >= HighThrillLevel
            THEN <<"high_thrill_attraction">> ELSE <<>>)
        \o (IF getDay(futureTime) = 0 \/ getDay(futureTime) = 6
            THEN <<"weekend">> ELSE <<>>)
        \o (IF getHours(futureTime) >= 11 /\ getHours(futureTime) <= 15
            THEN <<"peak_hours">> ELSE <<>>)
generatePredictionFactors(history, weather, attraction, clock) ==
    <<"historical_patterns", "time_of_day">>
    \o (IF weather # Null
        THEN <<"weather_conditions">>
             \o (IF weather.precipitation > 0 THEN <<"precipitation">> ELSE <<>>)
             \o (IF weather.temperature > HotTemperature
                    \/ weather.temperature < ColdTemperature
                 THEN <<"temperature_extreme">> ELSE <<>>)
        ELSE <<>>)
    \o (IF attraction.thrill_level >= HighThrillLevel
        THEN <<"high_thrill_attraction">> ELSE <<>>)
    \o (IF getDay(clock) = 0 \/ getDay(clock) = 6 THEN <<"weekend">> ELSE <<>>)
    \o (IF getHours(clock) >= 11 /\ getHours(clock) <= 15
        THEN <<"peak_hours">> ELSE <<>>)

(***************************************************************************)
(* The queries of the predictions route, evaluated on the tables           *)
(***************************************************************************)
HistoryDays == 7
HistoryLimit == 168
AlternativesLimit == 3

Range(s) == {s[i] : i \in DOMAIN s}

\* .limit(n) of a sequence
Limit(s, n) == SubSeq(s, 1, Min(n, Len(s)))

\* a sequence of rows ordered by timestamp, latest first (rows of one
\* timestamp keep their order of insertion)
RECURSIVE OrderByTimestampDesc(_)
OrderByTimestampDesc(s) ==
    IF s = <<>> THEN <<>>
    ELSE LET i == CHOOSE k \in DOMAIN s :
                      /\ \A j \in DOMAIN s : s[j].timestamp <= s[k].timestamp
                      /\ \A j \in 1..(k - 1) : s[j].timestamp < s[k].timestamp
         IN  <<s[i]>> \o OrderByTimestampDesc(
                 SubSeq(s, 1, i - 1) \o SubSeq(s, i + 1, Len(s)))

\* from('attractions').select('*').eq('id', attractionId).single()
selectAttraction(table, attractionId) ==
    IF attractionId \in DOMAIN table THEN table[attractionId] ELSE Null

\* from('wait_times').eq('attraction_id', id).gte('timestamp', now - 7 days)
\*   .order('timestamp', desc).limit(168)
selectHistory(log, attractionId, clock) ==
    LET Recent(h) == /\ h.attraction_id = attractionId
                     /\ h.timestamp >= clock - HistoryDays * MinutesPerDay
    IN  Limit(OrderByTimestampDesc(SelectSeq(log, Recent)), HistoryLimit)

\* from('weather_data').select('current_conditions').eq('park_id', parkId)
\*   .order('timestamp', desc).limit(1).single(): the rows it may return
selectWeather(snapshots, parkId) ==
    LET OfPark(w) == w.park_id = parkId
        rows == OrderByTimestampDesc(SelectSeq(snapshots, OfPark))
    IN  IF rows = <<>> THEN Null ELSE rows[1].current_conditions

\* the rows findAlternativeAttractions' query matches
alternativeCandidates(table, parkId, attractionType, currentWait) ==
    {id \in DOMAIN table :
        /\ table[id].park_id = parkId
        /\ table[id].type = attractionType
        /\ table[id].current_status = "open"
        /\ table[id].wait_time # NoWait
        /\ table[id].wait_time < currentWait}

\* the lists of ids the alternatives query may return: the candidates by
\* ascending wait_time, at most 3 of them; rows of equal wait_time come in
\* an order the query leaves to the database
selectAlternatives(table, parkId, attractionType, currentWait) ==
    LET cands == alternativeCandidates(table, parkId, attractionType, currentWait)
        k == Min(AlternativesLimit, Cardinality(cands))
    IN  {alts \in [1..k -> cands] :
            /\ \A i, j \in 1..k : i < j =>
                   /\ alts[i] # alts[j]
                   /\ table[alts[i]].wait_time <= table[alts[j]].wait_time
            /\ \A id \in cands \ Range(alts) :
                   \A i \in 1..k : table[alts[i]].wait_time <= table[id].wait_time}

\* findAlternativeAttractions: the lists it may return; [] on an error
findAlternativeAttractions(table, parkId, attractionType, currentWait, error) ==
    IF error THEN {<<>>}
    ELSE selectAlternatives(table, parkId, attractionType, currentWait)

(***************************************************************************)
(* GET /api/predictions and generateWaitTimePrediction                     *)
(***************************************************************************)
\* Number(token) for the tokens of the time_windows parameter
NumberOf(token) ==
    CASE token = "15" -> 15
      [] token = "015" -> 15
      [] token = "30" -> 30
      [] token = "60" -> 60
      [] token = "120" -> 120
      [] token = "0" -> 0
      [] token = "" -> 0
      [] token = "-30" -> -30

\* searchParams.get('time_windows')?.split(',').map(Number) || [15, 30, 60, 120]
parseTimeWindows_ignoreParam(param) == DefaultWindows
parseTimeWindows(param) ==
    IF param.present
    THEN [i \in DOMAIN param.tokens |-> NumberOf(param.tokens[i])]
    ELSE DefaultWindows

\* minutes.toString()
windowKey(minutes) == ToString(minutes)

NoPredictions == [k \in {} |-> Null]

\* attraction.wait_time || 0
currentWaitOf(attraction) ==
    IF attraction.wait_time = NoWait THEN 0 ELSE attraction.wait_time

\* for (const minutes of timeWindows) predictions[minutes.toString()] = ...
\* over the first n windows; us[i] is the draw of the i-th call
RECURSIVE predictionLoop(_, _, _, _, _, _, _, _)
predictionLoop(n, timeWindows, us, currentWait, history, weather, attraction, clock) ==
    IF n = 0 THEN NoPredictions
    ELSE LET prev == predictionLoop(n - 1, timeWindows, us, currentWait, history,
                                    weather, attraction, clock)
             key == windowKey(timeWindows[n])
             prediction == predictWaitTime(currentWait, timeWindows[n], history,
                                           weather, attraction, clock, us[n])
         IN  [k \in DOMAIN prev \cup {key} |->
                 IF k = key THEN prediction ELSE prev[k]]

newTask(attractionId) ==
    [pc |-> "attraction", attractionId |-> attractionId, attraction |-> Null,
     history |-> <<>>, historyError |-> FALSE, weather |-> Null, currentWait |-> 0,
     clock |-> 0, predictions |-> NoPredictions, factors |-> <<>>,
     alternativesError |-> FALSE, result |-> Null]

IdleRequest == [pc |-> "idle"]

\* the WaitTimePrediction generateWaitTimePrediction returns
makePrediction(t, alternatives) ==
    [attraction_id |-> t.attractionId,
     current_wait |-> t.currentWait,
     predictions |-> t.predictions,
     factors |-> t.factors,
     alternative_attractions |-> alternatives]

\* what generateWaitTimePrediction returns for an attraction that does not
\* resolve: return null
unresolvedResult_defaults(attractionId) == makePrediction(newTask(attractionId), <<>>)
unresolvedResult(attractionId) == Null

\* if (attractionError || !attraction) return null
attractionResolved(attraction, attractionError) ==
    ~attractionError /\ attraction # Null

\* if (historyError) return null
historyAborts(historyError) == historyError

\* the await of the attraction row
GetAttraction(i) ==
    /\ request.pc = "gen"
    /\ i \in DOMAIN tasks
    /\ tasks[i].pc = "attraction"
    /\ \E attractionError \in BOOLEAN :
         LET attraction == IF attractionError THEN Null
                           ELSE selectAttraction(attractions, tasks[i].attractionId)
         IN  tasks' = [tasks EXCEPT ![i] =
                 IF attractionResolved(attraction, attractionError)
                 THEN [@ EXCEPT !.pc = "history", !.attraction = attraction]
                 ELSE [@ EXCEPT !.pc = "done", !.attraction = attraction,
                                !.result = unresolvedResult(tasks[i].attractionId)]]
    /\ UNCHANGED <<storeVars, now, request, reports, nreports, nticks, mathRandom,
                   pureVars, otherVars>>

\* the await of the wait time history
GetHistory(i) ==
    /\ request.pc = "gen"
    /\ i \in DOMAIN tasks
    /\ tasks[i].pc = "history"
    /\ \E historyError \in BOOLEAN :
         LET waitTimeHistory ==
                 IF historyError THEN <<>>
                 ELSE selectHistory(wait_times, tasks[i].attractionId, now)
         IN  tasks' = [tasks EXCEPT ![i] =
                 IF historyAborts(historyError)
                 THEN [@ EXCEPT !.pc = "done", !.historyError = historyError,
                                !.result = Null]
                 ELSE [@ EXCEPT !.pc = "weather", !.historyError = historyError,
                                !.history = waitTimeHistory]]
    /\ UNCHANGED <<storeVars, now, request, reports, nreports, nticks, mathRandom,
                   pureVars, otherVars>>

\* the await of the weather snapshot, then the synchronous part up to the
\* call of findAlternativeAttractions: the loop over the windows and the
\* factors, all read at one time of the clock
GetWeather(i) ==
    /\ request.pc = "gen"
    /\ i \in DOMAIN tasks
    /\ tasks[i].pc = "weather"
    /\ \E weatherError \in BOOLEAN :
       \E us \in [DOMAIN request.timeWindows -> mathRandom] :
         LET t == tasks[i]
             weather == IF weatherError THEN Null
                        ELSE selectWeather(weather_data, t.attraction.park_id)
             currentWait == currentWaitOf(t.attraction)
         IN  tasks' = [tasks EXCEPT ![i] =
                 [@ EXCEPT !.pc = "alternatives",
                           !.weather = weather,
                           !.currentWait = currentWait,
                           !.clock = now,
                           !.predictions =
                               predictionLoop(Len(request.timeWindows),
                                   request.timeWindows, us, currentWait, t.history,
                                   weather, t.attraction, now),
                           !.factors = generatePredictionFactors(t.history, weather,
                                                                 t.attraction, now)]]
    /\ UNCHANGED <<storeVars, now, request, reports, nreports, nticks, mathRandom,
                   pureVars, otherVars>>

\* the await of findAlternativeAttractions' query (an error gives [])
GetAlternatives(i) ==
    /\ request.pc = "gen"
    /\ i \in DOMAIN tasks
    /\ tasks[i].pc = "alternatives"
    /\ \E error \in BOOLEAN :
       \E alternatives \in
           findAlternativeAttractions(attractions, tasks[i].attraction.park_id,
               tasks[i].attraction.type, tasks[i].currentWait, error) :
         tasks' = [tasks EXCEPT ![i] =
             [@ EXCEPT !.pc = "done", !.alternativesError = error,
                       !.result = makePrediction(tasks[i], alternatives)]]
    /\ UNCHANGED <<storeVars, now, request, reports, nreports, nticks, mathRandom,
                   pureVars, otherVars>>

\* the sequences that list every element of the set S once
Orderings(S) ==
    {o \in [1..Cardinality(S) -> S] : \A i, j \in DOMAIN o : i # j => o[i] # o[j]}

\* from('attractions').select('id').eq('park_id', parkId).eq('current_status', 'open')
selectOpenAttractions(table, parkId) ==
    {id \in DOMAIN table :
        table[id].park_id = parkId /\ table[id].current_status = "open"}

NotNull(x) == x # Null

\* allPredictions.filter(p => p !== null) over the results Promise.all gives
collectPredictions_allOrNothing(results) ==
    IF \E i \in DOMAIN results : results[i] = Null THEN <<>> ELSE results
collectPredictions(results) == SelectSeq(results, NotNull)

makeResponse(status, data, timeWindows) ==
    [status |-> status, data |-> data, time_windows |-> timeWindows]

\* GET: the request arrives; q is its query string
StartRequest(q) ==
    /\ request.pc \in {"idle", "done"}
    /\ LET timeWindows == parseTimeWindows(q.time_windows)
           base == [pc |-> "gen", attraction_id |-> q.attraction_id,
                    park_id |-> q.park_id, time_windows |-> q.time_windows,
                    timeWindows |-> timeWindows, response |-> Null]
       IN  IF q.attraction_id = "" /\ q.park_id = ""
           THEN /\ request' = [base EXCEPT !.pc = "done",
                                   !.response = makeResponse(400, <<>>, timeWindows)]
                /\ tasks' = <<>>
           ELSE IF q.attraction_id # ""
           THEN /\ request' = base
                /\ tasks' = <<newTask(q.attraction_id)>>
           ELSE /\ request' = [base EXCEPT !.pc = "list"]
                /\ tasks' = <<>>
    /\ UNCHANGED <<storeVars, now, reports, nreports, nticks, mathRandom, pureVars, otherVars>>

\* GET with park_id: the await of the list of open attractions; one
\* generateWaitTimePrediction call is started per row
ListAttractions ==
    /\ request.pc = "list"
    /\ \E error \in BOOLEAN :
         IF error
         THEN /\ request' = [request EXCEPT !.pc = "done",
                                 !.response = makeResponse(500, <<>>, request.timeWindows)]
              /\ tasks' = <<>>
         ELSE \E ids \in Orderings(selectOpenAttractions(attractions, request.park_id)) :
                /\ request' = [request EXCEPT !.pc = "gen"]
                /\ tasks' = [i \in DOMAIN ids |-> newTask(ids[i])]
    /\ UNCHANGED <<storeVars, now, reports, nreports, nticks, mathRandom, pureVars, otherVars>>

\* GET: every generateWaitTimePrediction call has returned
Respond_logsPredictions ==
    /\ request.pc = "gen"
    /\ \A i \in DOMAIN tasks : tasks[i].pc = "done"
    /\ request' = [request EXCEPT !.pc = "done",
           !.response = makeResponse(200,
                            collectPredictions([i \in DOMAIN tasks |-> tasks[i].result]),
                            request.timeWindows)]
    /\ wait_times' = wait_times \o
           [i \in DOMAIN tasks |->
               [attraction_id |-> tasks[i].attractionId,
                wait_minutes |-> tasks[i].currentWait, timestamp |-> now]]
    /\ UNCHANGED <<attractions, weather_data, now, tasks, reports, nreports, nticks,
                   mathRandom, pureVars, otherVars>>
Respond ==
    /\ request.pc = "gen"
    /\ \A i \in DOMAIN tasks : tasks[i].pc = "done"
    /\ request' = [request EXCEPT !.pc = "done",
           !.response = makeResponse(200,
                            collectPredictions([i \in DOMAIN tasks |-> tasks[i].result]),
                            request.timeWindows)]
    /\ UNCHANGED <<storeVars, now, tasks, reports, nreports, nticks, mathRandom,
                   pureVars, otherVars>>

(***************************************************************************)
(* POST /api/wait-times                                                    *)
(***************************************************************************)
MinReportedWait == 0
MaxReportedWait == 300
MaxReports == 1

reportAccepted_noUpperBound(body) ==
    /\ body.attraction_id # ""
    /\ body.is_number
    /\ ~(body.wait_minutes < MinReportedWait)

\* the two validations of the body
reportAccepted(body) ==
    /\ body.attraction_id # ""
    /\ body.is_number
    /\ ~(body.wait_minutes < MinReportedWait \/ body.wait_minutes > MaxReportedWait)

\* the answer of the POST: its status and error code
reportResponse(status, code) == [status |-> status, code |-> code]

\* POST: the request arrives and is validated; a rejected body is answered
\* with 400 at once
Receive(body) ==
    /\ nreports' = nreports + 1
    /\ IF reportAccepted(body)
       THEN reports' = Append(reports, [pc |-> "insert", body |-> body, updated |-> FALSE,
                                        response |-> Null])
       ELSE reports' = Append(reports, [pc |-> "done", body |-> body, updated |-> FALSE,
                                        response |-> reportResponse(400, "VALIDATION_ERROR")])
    /\ UNCHANGED <<storeVars, now, request, tasks, nticks, mathRandom, pureVars, otherVars>>

ReceiveReport(body) ==
    /\ nreports < MaxReports
    /\ Receive(body)

\* the row inserted: timestamp: body.timestamp || new Date()
reportRow(body, clock) ==
    [attraction_id |-> body.attraction_id,
     wait_minutes |-> body.wait_minutes,
     timestamp |-> IF body.has_timestamp THEN body.timestamp ELSE clock]

\* POST: the await of the insert into wait_times; the insert fails when the
\* attraction does not exist (foreign key) or the database reports an error
InsertReport(r) ==
    /\ r \in DOMAIN reports
    /\ reports[r].pc = "insert"
    /\ \E error \in BOOLEAN :
         IF error \/ reports[r].body.attraction_id \notin DOMAIN attractions
         THEN /\ reports' = [reports EXCEPT ![r].pc = "done",
                                  ![r].response = reportResponse(500, "DATABASE_ERROR")]
              /\ wait_times' = wait_times
         ELSE /\ reports' = [reports EXCEPT ![r].pc = "update"]
              /\ wait_times' = Append(wait_times, reportRow(reports[r].body, now))
    /\ UNCHANGED <<attractions, weather_data, now, request, tasks, nreports, nticks,
                   mathRandom, pureVars, otherVars>>

\* POST: the await of the update of attractions.wait_time (its outcome is
\* not looked at), then the 201
UpdateAttraction(r) ==
    /\ r \in DOMAIN reports
    /\ reports[r].pc = "update"
    /\ \E error \in BOOLEAN :
         LET body == reports[r].body
             found == ~error /\ body.attraction_id \in DOMAIN attractions
         IN  /\ attractions' =
                    IF found
                    THEN [attractions EXCEPT
                              ![body.attraction_id].wait_time = body.wait_minutes]
                    ELSE attractions
             /\ reports' = [reports EXCEPT ![r].pc = "done", ![r].updated = found,
                                           ![r].response = reportResponse(201, "")]
    /\ UNCHANGED <<wait_times, weather_data, now, request, tasks, nreports, nticks,
                   mathRandom, pureVars, otherVars>>

(***************************************************************************)
(* The clock                                                               *)
(***************************************************************************)
MaxTicks == 1
TickMinutes == 10

Tick ==
    /\ nticks < MaxTicks
    /\ nticks' = nticks + 1
    /\ now' = now + TickMinutes
    /\ UNCHANGED <<storeVars, request, tasks, reports, nreports, mathRandom, pureVars, otherVars>>

(***************************************************************************)
(* The initial tables                                                      *)
(***************************************************************************)
Row(park, type, thrill, status, wait) ==
    [park_id |-> park, type |-> type, thrill_level |-> thrill,
     current_status |-> status, wait_time |-> wait]

InitAttractions ==
    [id \in {"a1", "a2", "a3", "a4", "a5", "a6", "a7", "b1", "b2", "b3"} |->
        CASE id = "a1" -> Row("p1", "roller_coaster", 5, "open", 40)
          [] id = "a2" -> Row("p1", "roller_coaster", 0, "open", 10)
          [] id = "a3" -> Row("p1", "roller_coaster", 3, "open", 10)
          [] id = "a4" -> Row("p1", "roller_coaster", 4, "open", 20)
          [] id = "a5" -> Row("p1", "roller_coaster", 0, "open", 20)
          [] id = "a6" -> Row("p1", "roller_coaster", 0, "closed", 5)
          [] id = "a7" -> Row("p1", "dark_ride", 0, "open", 5)
          [] id = "b1" -> Row("p2", "roller_coaster", 0, "open", NoWait)
          [] id = "b2" -> Row("p2", "show", 0, "open", 1)
          [] id = "b3" -> Row("p2", "roller_coaster", 0, "delayed", 0)]

InitWaitTimes ==
    << [attraction_id |-> "a1", wait_minutes |-> 90, timestamp |-> At(1, 13, 0)],
       [attraction_id |-> "a1", wait_minutes |-> 60, timestamp |-> At(11, 13, 0)],
       [attraction_id |-> "b2", wait_minutes |-> 120, timestamp |-> At(12, 9, 0)] >>

InitWeatherData ==
    << [park_id |-> "p1", timestamp |-> At(12, 12, 0),
        current_conditions |-> [temperature |-> 35, precipitation |-> 2]] >>

InitClocks == {At(12, 12, 50), At(13, 23, 30)}

(***************************************************************************)
(* Specification of the routes                                             *)
(***************************************************************************)
NoWindowParam == [present |-> FALSE, tokens |-> <<>>]
WindowParam(tokens) == [present |-> TRUE, tokens |-> tokens]

Queries ==
    [attraction_id : {"a1", "zz"}, park_id : {""},
     time_windows : {NoWindowParam, WindowParam(<<"0", "15">>), WindowParam(<<"-30">>),
                     WindowParam(<<"015", "15">>)}]
    \cup [attraction_id : {""}, park_id : {"p2", ""},
          time_windows : {NoWindowParam, WindowParam(<<"0", "15">>)}]

ReportBodies ==
    [attraction_id : {"a1"}, is_number : {TRUE}, wait_minutes : {10},
     has_timestamp : {FALSE}, timestamp : {0}]

Init ==
    /\ attractions = InitAttractions
    /\ wait_times = InitWaitTimes
    /\ weather_data = InitWeatherData
    /\ now \in InitClocks
    /\ request = IdleRequest
    /\ tasks = <<>>
    /\ reports = <<>>
    /\ nreports = 0
    /\ nticks = 0
    /\ mathRandom = JitterDraws
    /\ pin = Null
    /\ pout = Null
    /\ OtherInit

Next ==
    \/ \E q \in Queries : StartRequest(q)
    \/ ListAttractions
    \/ \E i \in DOMAIN tasks : GetAttraction(i)
    \/ \E i \in DOMAIN tasks : GetHistory(i)
    \/ \E i \in DOMAIN tasks : GetWeather(i)
    \/ \E i \in DOMAIN tasks : GetAlternatives(i)
    \/ Respond
    \/ \E body \in ReportBodies : ReceiveReport(body)
    \/ \E r \in DOMAIN reports : InsertReport(r)
    \/ \E r \in DOMAIN reports : UpdateAttraction(r)
    \/ Tick

Spec == Init /\ [][Next]_vars

(***************************************************************************)
(* Specification of the direct calls of predictWaitTime                    *)
(***************************************************************************)
PureInit ==
    /\ attractions = InitAttractions
    /\ wait_times = InitWaitTimes
    /\ weather_data = InitWeatherData
    /\ now = 0
    /\ request = IdleRequest
    /\ tasks = <<>>
    /\ reports = <<>>
    /\ nreports = 0
    /\ nticks = 0
    /\ mathRandom = JitterDraws
    /\ pin \in PureInputs
    /\ pout = Null
    /\ OtherInit

PureNext == PurePredict

PureSpec == PureInit /\ [][PureNext]_vars

(***************************************************************************)
(* Two estimates side by side: two GET requests with the same query, each  *)
(* with its own generateWaitTimePrediction call (tasks 1 and 2), on tables *)
(* that no report changes, with the clock stopped and Math.random()        *)
(* replaced by a source that returns one fixed value.                      *)
(***************************************************************************)
DetQueries ==
    [attraction_id : {"a1", "a7"}, park_id : {""},
     time_windows : {NoWindowParam, WindowParam(<<"0", "15">>)}]

DetInit ==
    /\ attractions = InitAttractions
    /\ wait_times = InitWaitTimes
    /\ weather_data = InitWeatherData
    /\ now \in InitClocks
    /\ \E q \in DetQueries :
         /\ request = [pc |-> "gen", attraction_id |-> q.attraction_id,
                       park_id |-> q.park_id, time_windows |-> q.time_windows,
                       timeWindows |-> parseTimeWindows(q.time_windows),
                       response |-> Null]
         /\ tasks = <<newTask(q.attraction_id), newTask(q.attraction_id)>>
    /\ reports = <<>>
    /\ nreports = 0
    /\ nticks = 0
    /\ mathRandom \in {{u} : u \in JitterDraws}
    /\ pin = Null
    /\ pout = Null
    /\ OtherInit

DetNext ==
    \/ \E i \in DOMAIN tasks : GetAttraction(i)
    \/ \E i \in DOMAIN tasks : GetHistory(i)
    \/ \E i \in DOMAIN tasks : GetWeather(i)
    \/ \E i \in DOMAIN tasks : GetAlternatives(i)

DetSpec == DetInit /\ [][DetNext]_vars

(***************************************************************************)
(* The local variables of predictWaitTime at its successive steps.  A      *)
(* precipitation is in tenths of a millimetre (5 is 0.5 mm).               *)
(***************************************************************************)
predictWaitTimeSteps(currentWait, minutesAhead, history, weather, attraction, clock, u) ==
    LET futureTime == clock + minutesAhead
        hour == getHours(futureTime)
        dayOfWeek == getDay(futureTime)
        base == Rat(currentWait, 1)
        timed == timeAdjust(base, hour)
        dayed == dayAdjust(timed, dayOfWeek)
        thrilled == thrillAdjust(dayed, attraction)
        weathered == weatherAdjust([prediction |-> thrilled, confidence |-> Rat(8, 10)],
                                   weather, attraction)
        blended == historyAdjust(weathered, history, hour)
    IN  [hour |-> hour, dayOfWeek |-> dayOfWeek, base |-> base, timed |-> timed,
         dayed |-> dayed, thrilled |-> thrilled, weathered |-> weathered,
         blended |-> blended,
         result |-> predictWaitTime(currentWait, minutesAhead, history, weather,
                                    attraction, clock, u)]

StepWaits == {0, 40, 150}
StepWindows == {15, 120}
StepWeathers ==
    {Null} \cup [temperature : {DefaultTemperature, 35}, precipitation : {0, 2, 8}]
StepClocks == {At(day, hour, 50) : day \in {5, 6}, hour \in 0..(HoursPerDay - 1)}
StepObservations ==
    { [timestamp |-> At(4, 13, 0), wait_minutes |-> 300],
      [timestamp |-> At(4, 14, 30), wait_minutes |-> 60],
      [timestamp |-> At(3, 0, 10), wait_minutes |-> 0] }

StepInputs ==
    [currentWait : StepWaits,
     minutesAhead : StepWindows,
     history : SeqsUpTo(StepObservations, MaxHistory),
     weather : StepWeathers,
     attraction : [type : AttractionTypes, thrill_level : PureThrills],
     clock : StepClocks,
     u : {5}]

PureSteps ==
    /\ pin # Null
    /\ pout = Null
    /\ pout' = predictWaitTimeSteps(pin.currentWait, pin.minutesAhead, pin.history,
                                    pin.weather, pin.attraction, pin.clock, pin.u)
    /\ UNCHANGED <<pin, storeVars, now, routeVars, otherVars>>

StepInit ==
    /\ attractions = InitAttractions
    /\ wait_times = InitWaitTimes
    /\ weather_data = InitWeatherData
    /\ now = 0
    /\ request = IdleRequest
    /\ tasks = <<>>
    /\ reports = <<>>
    /\ nreports = 0
    /\ nticks = 0
    /\ mathRandom = JitterDraws
    /\ pin \in StepInputs
    /\ pout = Null
    /\ OtherInit

StepNext == PureSteps

StepSpec == StepInit /\ [][StepNext]_vars

(***************************************************************************)
(* calculateComfortIndex and analyzeWeatherImpact (weather route), and     *)
(* calculateComfortIndex of lib/utils.  Their arguments are rationals: a   *)
(* temperature in degrees Celsius, a humidity in percent, a wind speed in  *)
(* km/h; a precipitation is in tenths of a millimetre.                     *)
(***************************************************************************)
RSub(r, s) == Rat(r.n * s.d - s.n * r.d, r.d * s.d)
RAbs(r) == [n |-> Abs(r.n), d |-> r.d]
RMax(r, s) == IF RLess(r, s) THEN s ELSE r
RMin(r, s) == IF RLess(s, r) THEN s ELSE r
Whole(n) == Rat(n, 1)

\* (temperature * 9/5) + 32
toFahrenheit(temperature) == RAdd(RMul(temperature, 9, 5), Whole(32))

\* windSpeed > 5 ? Math.max(0.9, 1 - (windSpeed * 0.02)) : 1
windChillFactorOf_noThreshold(windSpeed) ==
    RMax(Rat(9, 10), RSub(Whole(1), RMul(windSpeed, 2, 100)))
windChillFactorOf(windSpeed) ==
    IF RLess(Whole(5), windSpeed)
    THEN RMax(Rat(9, 10), RSub(Whole(1), RMul(windSpeed, 2, 100)))
    ELSE Whole(1)

\* Math.max(0, Math.min(100, Math.round(comfort)))
clampComfort_noLower(comfort) == Min(100, MathRound(comfort))
clampComfort(comfort) == Max(0, Min(100, MathRound(comfort)))

\* calculateComfortIndex of the weather route
calculateComfortIndex(temperature, humidity, windSpeed) ==
    LET tempF == toFahrenheit(temperature)
        c0 == Whole(100)
        c1 == IF RLess(tempF, Whole(60)) \/ RLess(Whole(90), tempF)
              THEN RSub(c0, RMul(RAbs(RSub(Whole(75), tempF)), 2, 1))
              ELSE c0
        c2 == IF RLess(humidity, Whole(30)) \/ RLess(Whole(70), humidity)
              THEN RSub(c1, RMul(RAbs(RSub(Whole(50), humidity)), 5, 10))
              ELSE c1
        windChillFactor == windChillFactorOf(windSpeed)
        c3 == RMul(c2, windChillFactor.n, windChillFactor.d)
    IN  clampComfort(c3)

\* calculateComfortIndex of lib/utils: the wind chill factor is computed
\* first, the heat index is computed and not used
utilsCalculateComfortIndex(temperature, humidity, windSpeed) ==
    LET heatIndex == RAdd(temperature, RMul(RSub(humidity, Whole(14)), 5, 10))
        windChillFactor == windChillFactorOf(windSpeed)
        comfort0 == Whole(100)
        tempF == toFahrenheit(temperature)
        comfort1 == IF RLess(tempF, Whole(60)) \/ RLess(Whole(90), tempF)
                    THEN RSub(comfort0, RMul(RAbs(RSub(Whole(75), tempF)), 2, 1))
                    ELSE comfort0
        comfort2 == IF RLess(humidity, Whole(30)) \/ RLess(Whole(70), humidity)
                    THEN RSub(comfort1, RMul(RAbs(RSub(Whole(50), humidity)), 5, 10))
                    ELSE comfort1
        comfort3 == RMul(comfort2, windChillFactor.n, windChillFactor.d)
    IN  Max(0, Min(100, MathRound(comfort3)))

\* analyzeWeatherImpact; current is the reading of the weather API
analyzeWeatherImpact_earlyExit(current) ==
    LET highWind == RLess(Whole(35), current.wind_speed_10m)
        rain == current.precipitation > 5
        tempF == toFahrenheit(current.temperature_2m)
        hot == ~rain /\ RLess(Whole(95), tempF)
        cold == ~rain /\ ~hot /\ RLess(tempF, Whole(40))
        perfect == /\ ~RLess(tempF, Whole(70))
                   /\ ~RLess(Whole(85), tempF)
                   /\ current.precipitation = 0
        i1 == IF rain THEN Rat(7, 10)
              ELSE IF hot THEN Rat(8, 10)
              ELSE IF cold THEN Rat(6, 10)
              ELSE IF perfect THEN Rat(12, 10) ELSE Whole(1)
        push(b, text) == IF b THEN <<text>> ELSE <<>>
    IN  [attraction_closures |->
             push(highWind, "Outdoor roller coasters may close due to high winds")
             \o push(rain, "Water rides may be temporarily closed")
             \o push(cold, "Some outdoor attractions may close due to cold"),
         crowd_impact |-> i1,
         recommendations |->
             push(highWind, "Consider indoor attractions")
             \o push(rain, "Bring rain gear or head to covered areas")
             \o push(hot, "Stay hydrated and take frequent shade breaks")
             \o push(perfect, "Perfect weather - expect higher crowds")]
analyzeWeatherImpact(current) ==
    LET highWind == RLess(Whole(35), current.wind_speed_10m)
        rain == current.precipitation > 5
        tempF == toFahrenheit(current.temperature_2m)
        hot == RLess(Whole(95), tempF)
        cold == ~hot /\ RLess(tempF, Whole(40))
        perfect == /\ ~RLess(tempF, Whole(70))
                   /\ ~RLess(Whole(85), tempF)
                   /\ current.precipitation = 0
        i0 == Whole(1)
        i1 == IF rain THEN RMul(i0, 7, 10) ELSE i0
        i2 == IF hot THEN RMul(i1, 8, 10)
              ELSE IF cold THEN RMul(i1, 6, 10) ELSE i1
        i3 == IF perfect THEN RMul(i2, 12, 10) ELSE i2
        push(b, text) == IF b THEN <<text>> ELSE <<>>
    IN  [attraction_closures |->
             push(highWind, "Outdoor roller coasters may close due to high winds")
             \o push(rain, "Water rides may be temporarily closed")
             \o push(cold, "Some outdoor attractions may close due to cold"),
         crowd_impact |-> i3,
         recommendations |->
             push(highWind, "Consider indoor attractions")
             \o push(rain, "Bring rain gear or head to covered areas")
             \o push(hot, "Stay hydrated and take frequent shade breaks")
             \o push(perfect, "Perfect weather - expect higher crowds")]

\* generateWeatherAlerts: the alerts (their title and message texts left
\* out); hourly.precipitation is the hourly forecast, in tenths of a mm
generateWeatherAlerts_anyHour(current, hourly) ==
    LET wind == current.wind_speed_10m
    IN  (IF RLess(Whole(30), wind)
         THEN <<[type |-> "wind_advisory",
                 severity |-> IF RLess(Whole(40), wind) THEN "high" ELSE "medium",
                 action |-> "Consider indoor attractions",
                 duration |-> 60]>>
         ELSE <<>>)
        \o (IF \E k \in DOMAIN hourly.precipitation : hourly.precipitation[k] > 5
            THEN <<[type |-> "heavy_rain", severity |-> "medium",
                    action |-> "Find covered areas", duration |-> 120]>>
            ELSE <<>>)
generateWeatherAlerts(current, hourly) ==
    LET wind == current.wind_speed_10m
        nextTwoHours == Limit(hourly.precipitation, 2)
    IN  (IF RLess(Whole(30), wind)
         THEN <<[type |-> "wind_advisory",
                 severity |-> IF RLess(Whole(40), wind) THEN "high" ELSE "medium",
                 action |-> "Consider indoor attractions",
                 duration |-> 60]>>
         ELSE <<>>)
        \o (IF \E k \in DOMAIN nextTwoHours : nextTwoHours[k] > 5
            THEN <<[type |-> "heavy_rain", severity |-> "medium",
                    action |-> "Find covered areas", duration |-> 120]>>
            ELSE <<>>)

WeatherTemperatures ==
    {Rat(215, 9), Rat(140, 9), Rat(290, 9), Whole(35), Whole(15), Whole(33),
     Whole(-40), Whole(50), Whole(4), Whole(36), Whole(24), Whole(0)}
WeatherHumidities == {Whole(0), Whole(29), Whole(30), Whole(50), Whole(70),
                      Rat(141, 2), Whole(100)}
WeatherWinds == {Whole(0), Whole(5), Rat(11, 2), Whole(10), Whole(30), Whole(31),
                 Whole(36), Whole(40), Whole(60)}
WeatherPrecipitations == {0, 3, 8}

HourlyForecasts ==
    {<<>>, <<0>>, <<8>>, <<0, 0>>, <<0, 8>>, <<5, 5>>, <<6, 0, 0>>, <<0, 0, 8>>}

WeatherInputs ==
    [temperature_2m : WeatherTemperatures,
     relative_humidity_2m : WeatherHumidities,
     wind_speed_10m : WeatherWinds,
     precipitation : WeatherPrecipitations,
     hourly_precipitation : HourlyForecasts]

\* the two calls of fetchWeatherFromAPI on the current reading, and the
\* call of the utility on the same arguments
PureWeather ==
    /\ pin # Null
    /\ pout = Null
    /\ pout' = [comfort_index |->
                    calculateComfortIndex(pin.temperature_2m, pin.relative_humidity_2m,
                                          pin.wind_speed_10m),
                utils_comfort_index |->
                    utilsCalculateComfortIndex(pin.temperature_2m,
                                               pin.relative_humidity_2m,
                                               pin.wind_speed_10m),
                impact |-> analyzeWeatherImpact(pin),
                alerts |-> generateWeatherAlerts(pin,
                               [precipitation |-> pin.hourly_precipitation])]
    /\ UNCHANGED <<pin, storeVars, now, routeVars, otherVars>>

WeatherInit ==
    /\ attractions = InitAttractions
    /\ wait_times = InitWaitTimes
    /\ weather_data = InitWeatherData
    /\ now = 0
    /\ request = IdleRequest
    /\ tasks = <<>>
    /\ reports = <<>>
    /\ nreports = 0
    /\ nticks = 0
    /\ mathRandom = JitterDraws
    /\ pin \in WeatherInputs
    /\ pout = Null
    /\ OtherInit

WeatherNext == PureWeather

WeatherSpec == WeatherInit /\ [][WeatherNext]_vars

(***************************************************************************)
(* Single-attraction requests at clocks next to a change of hour band or   *)
(* of day, on tables that no report changes.                               *)
(***************************************************************************)
EstimateClocks ==
    {At(12, 14, 50), At(15, 10, 50), At(14, 23, 30), At(12, 23, 30), At(13, 12, 0)}

EstimateQueries ==
    [attraction_id : {"a1", "b2"}, park_id : {""},
     time_windows : {NoWindowParam, WindowParam(<<"0", "15">>)}]

EstimateInit ==
    /\ attractions = InitAttractions
    /\ wait_times = InitWaitTimes
    /\ weather_data = InitWeatherData
    /\ now \in EstimateClocks
    /\ request = IdleRequest
    /\ tasks = <<>>
    /\ reports = <<>>
    /\ nreports = 0
    /\ nticks = 0
    /\ mathRandom = JitterDraws
    /\ pin = Null
    /\ pout = Null
    /\ OtherInit

EstimateNext ==
    \/ \E q \in EstimateQueries : StartRequest(q)
    \/ \E i \in DOMAIN tasks : GetAttraction(i)
    \/ \E i \in DOMAIN tasks : GetHistory(i)
    \/ \E i \in DOMAIN tasks : GetWeather(i)
    \/ \E i \in DOMAIN tasks : GetAlternatives(i)
    \/ Respond

EstimateSpec == EstimateInit /\ [][EstimateNext]_vars

(***************************************************************************)
(* GET /api/weather (weather route).  A request is a record; the requests  *)
(* in flight and answered are the sequence weatherRoute.requests.  Of the  *)
(* weather data only the current conditions read by the predictions route  *)
(* are kept (forecast, alerts and impact are stored and returned with them *)
(* and never read back by the route).                                      *)
(***************************************************************************)
MaxWeatherRequests == 2
FreshnessMinutes == 10

InitParks == {"p1", "p2"}

\* from('weather_data').select('*').eq('park_id', parkId)
\*   .order('timestamp', desc).limit(1).single(): the row, or null
selectLatestWeather(snapshots, parkId) ==
    LET OfPark(w) == w.park_id = parkId
        rows == OrderByTimestampDesc(SelectSeq(snapshots, OfPark))
    IN  IF rows = <<>> THEN Null ELSE rows[1]

\* dbWeather && new Date().getTime() - new Date(dbWeather.timestamp).getTime()
\*   < 10 * 60 * 1000
isRecent(dbWeather, clock) ==
    dbWeather # Null /\ clock - dbWeather.timestamp < FreshnessMinutes

weatherError(status, code) == [status |-> status, success |-> FALSE, code |-> code]
weatherSuccess(data) == [status |-> 200, success |-> TRUE, data |-> data]

\* if (!weatherData) 503 else 200
weatherResponse(weatherData) ==
    IF weatherData = Null THEN weatherError(503, "WEATHER_SERVICE_ERROR")
    ELSE weatherSuccess(weatherData)

newWeatherRequest(q) ==
    [pc |-> "start", park_id |-> q.park_id, coords |-> q.coords, dbWeather |-> Null,
     stored |-> Null, checkedAt |-> 0, recent |-> FALSE, fetches |-> 0,
     inserts |-> 0, weatherData |-> Null, response |-> Null]

WeatherQueries ==
    [park_id : {"p1", "p2", "zz"}, coords : {"none"}]
    \cup [park_id : {""}, coords : {"none", "valid", "invalid"}]

\* the readings the external API may answer with
WeatherReadings == {[temperature |-> 20, precipitation |-> 0]}

SetRequest(r, req) ==
    weatherRoute' = [weatherRoute EXCEPT !.requests[r] = req]

\* GET: the request arrives; the branch on park_id, lat and lng
StartWeather(q) ==
    /\ weatherRoute # Null
    /\ Len(weatherRoute.requests) < MaxWeatherRequests
    /\ LET req == newWeatherRequest(q)
           started ==
               IF q.park_id # "" THEN [req EXCEPT !.pc = "park"]
               ELSE IF q.coords = "none"
               THEN [req EXCEPT !.pc = "done",
                                !.response = weatherError(400, "VALIDATION_ERROR")]
               ELSE IF q.coords = "invalid"
               THEN [req EXCEPT !.pc = "done",
                                !.response = weatherError(400, "VALIDATION_ERROR")]
               ELSE [req EXCEPT !.pc = "fetch"]
       IN  weatherRoute' = [weatherRoute EXCEPT !.requests = Append(@, started)]
    /\ UNCHANGED <<storeVars, now, routeVars, pureVars, auth, component, debounced>>

\* the await of the park's location; an error (no such park) answers 404
GetPark(r) ==
    /\ weatherRoute # Null
    /\ r \in DOMAIN weatherRoute.requests
    /\ LET req == weatherRoute.requests[r]
       IN  /\ req.pc = "park"
           /\ \E error \in BOOLEAN :
                IF error \/ req.park_id \notin InitParks
                THEN SetRequest(r, [req EXCEPT !.pc = "done",
                         !.response = weatherError(404, "PARK_NOT_FOUND")])
                ELSE SetRequest(r, [req EXCEPT !.pc = "dbweather"])
    /\ UNCHANGED <<storeVars, now, routeVars, pureVars, auth, component, debounced>>

\* the await of the latest stored snapshot (its error is not read), then
\* the freshness test; a recent snapshot is the answer.  stored records the
\* latest snapshot the table held at that time, checkedAt the clock
GetDbWeather(r) ==
    /\ weatherRoute # Null
    /\ r \in DOMAIN weatherRoute.requests
    /\ LET req == weatherRoute.requests[r]
       IN  /\ req.pc = "dbweather"
           /\ \E error \in BOOLEAN :
                LET dbWeather == IF error THEN Null
                                 ELSE selectLatestWeather(weather_data, req.park_id)
                    looked == [req EXCEPT !.dbWeather = dbWeather, !.checkedAt = now,
                                          !.stored = selectLatestWeather(weather_data,
                                                                         req.park_id),
                                          !.recent = isRecent(dbWeather, now)]
                IN  IF isRecent(dbWeather, now)
                    THEN LET weatherData ==
                                 [park_id |-> req.park_id,
                                  current |-> dbWeather.current_conditions,
                                  last_updated |-> dbWeather.timestamp]
                         IN  SetRequest(r, [looked EXCEPT !.pc = "done",
                                 !.weatherData = weatherData,
                                 !.response = weatherResponse(weatherData)])
                    ELSE SetRequest(r, [looked EXCEPT !.pc = "fetch"])
    /\ UNCHANGED <<storeVars, now, routeVars, pureVars, auth, component, debounced>>

\* the await of fetchWeatherFromAPI: the reading of the external API, or
\* null when the fetch fails; without a park, or without data, the answer
FetchWeatherFromAPI(r) ==
    /\ weatherRoute # Null
    /\ r \in DOMAIN weatherRoute.requests
    /\ LET req == weatherRoute.requests[r]
       IN  /\ req.pc = "fetch"
           /\ \E failed \in BOOLEAN :
              \E reading \in WeatherReadings :
                LET weatherData ==
                        IF failed THEN Null
                        ELSE [park_id |-> req.park_id, current |-> reading,
                              last_updated |-> now]
                    fetched == [req EXCEPT !.fetches = @ + 1,
                                           !.weatherData = weatherData]
                IN  IF req.park_id # "" /\ weatherData # Null
                    THEN SetRequest(r, [fetched EXCEPT !.pc = "insert"])
                    ELSE SetRequest(r, [fetched EXCEPT !.pc = "done",
                             !.response = weatherResponse(weatherData)])
    /\ UNCHANGED <<storeVars, now, routeVars, pureVars, auth, component, debounced>>

\* the await of the insert into weather_data (its outcome is not looked
\* at; timestamp is the column's DEFAULT NOW()), then the answer
InsertWeather(r) ==
    /\ weatherRoute # Null
    /\ r \in DOMAIN weatherRoute.requests
    /\ LET req == weatherRoute.requests[r]
       IN  /\ req.pc = "insert"
           /\ \E error \in BOOLEAN :
                /\ weather_data' =
                       IF error THEN weather_data
                       ELSE Append(weather_data,
                                [park_id |-> req.park_id, timestamp |-> now,
                                 current_conditions |-> req.weatherData.current])
                /\ SetRequest(r, [req EXCEPT !.pc = "done",
                       !.inserts = IF error THEN @ ELSE @ + 1,
                       !.response = weatherResponse(req.weatherData)])
    /\ UNCHANGED <<attractions, wait_times, now, routeVars, pureVars, auth, component,
                   debounced>>

\* the clock, for the weather route
WeatherTick ==
    /\ weatherRoute # Null
    /\ Tick

WeatherClocks == {At(12, 12, 5), At(12, 12, 10)}

WeatherRouteInit ==
    /\ attractions = InitAttractions
    /\ wait_times = InitWaitTimes
    /\ weather_data = InitWeatherData
    /\ now \in WeatherClocks
    /\ request = IdleRequest
    /\ tasks = <<>>
    /\ reports = <<>>
    /\ nreports = 0
    /\ nticks = 0
    /\ mathRandom = JitterDraws
    /\ pin = Null
    /\ pout = Null
    /\ weatherRoute = [requests |-> <<>>]
    /\ auth = Null
    /\ component = Null
    /\ debounced = Null

WeatherRouteNext ==
    \/ \E q \in WeatherQueries : StartWeather(q)
    \/ \E r \in DOMAIN weatherRoute.requests : GetPark(r)
    \/ \E r \in DOMAIN weatherRoute.requests : GetDbWeather(r)
    \/ \E r \in DOMAIN weatherRoute.requests : FetchWeatherFromAPI(r)
    \/ \E r \in DOMAIN weatherRoute.requests : InsertWeather(r)
    \/ WeatherTick

WeatherRouteSpec == WeatherRouteInit /\ [][WeatherRouteNext]_vars

(***************************************************************************)
(* Properties                                                              *)
(***************************************************************************)
\* the Predictions of the response of the request, once it has responded
Responded == request.pc = "done"
ResponseData == request.response.data

DoneTasks == {i \in DOMAIN tasks : tasks[i].pc = "done"}

\* C1: every predicted_wait predictWaitTime returns is an integer in [0, 180],
\* for every current wait, attraction, history, weather, clock, window and draw
C1_PredictedWaitInRange ==
    pout # Null => pout.predicted_wait \in 0..MaxPredictedWait

\* the upper clamp acts: a current wait of 300 at a peak hour is reported as 180
C1_Witness ==
    /\ pout # Null
    /\ pin.currentWait = 300
    /\ getHours(pin.clock + pin.minutesAhead) \in 11..15
    /\ pout.predicted_wait = MaxPredictedWait

\* C2: every confidence predictWaitTime returns lies in [0.3, 1.0] (30..100
\* hundredths), with or without weather, precipitation and matching history
C2_ConfidenceInRange ==
    pout # Null => pout.confidence \in 30..100

\* rain on an outdoor attraction and a history without a similar hour: the
\* lowest confidence of the algorithm, 0.8 * 0.8 * 0.9 = 0.576, reported as 0.58
C2_Witness ==
    /\ pout # Null
    /\ pin.weather # Null
    /\ pin.weather.precipitation > 0
    /\ pin.attraction.type = "roller_coaster"
    /\ pin.history # <<>>
    /\ similarTimes(pin.history, getHours(pin.clock + pin.minutesAhead)) = <<>>
    /\ pout.confidence = 58

\* the keys the request asks for: one per requested window, the four
\* default windows when the request has no time_windows parameter
RequestedKeys ==
    IF request.time_windows.present
    THEN {windowKey(NumberOf(request.time_windows.tokens[i])) :
             i \in DOMAIN request.time_windows.tokens}
    ELSE {"15", "30", "60", "120"}

\* C3: the predictions mapping of every returned Prediction has exactly the
\* requested windows as its keys, and the windows 15, 30, 60, 120 when the
\* caller supplies none
C3_WindowsEchoed ==
    (Responded /\ request.response.status = 200) =>
        \A j \in DOMAIN ResponseData :
            DOMAIN ResponseData[j].predictions = RequestedKeys

\* a Prediction was returned for a request without a time_windows parameter
C3_Witness ==
    /\ Responded
    /\ request.response.status = 200
    /\ ~request.time_windows.present
    /\ ResponseData # <<>>
    /\ DOMAIN ResponseData[1].predictions = {"15", "30", "60", "120"}

\* C4: an attraction that does not resolve (lookup error or no row) gets no
\* Prediction: generateWaitTimePrediction returns null
C4_UnresolvedGivesNull ==
    \A i \in DoneTasks : tasks[i].attraction = Null => tasks[i].result = Null

\* the attraction "zz" has no row: its call has returned
C4_Witness ==
    \E i \in DoneTasks :
        /\ tasks[i].attractionId \notin DOMAIN attractions
        /\ tasks[i].attraction = Null
        /\ tasks[i].result = Null

\* C5: when the attraction resolves and the history lookup fails, a
\* Prediction is still produced (as if the history were empty)
C5_HistoryFailureDegrades ==
    \A i \in DoneTasks :
        (tasks[i].attraction # Null /\ tasks[i].historyError) => tasks[i].result # Null

\* the result of predictWaitTime when no weather adjustment is applied: the
\* time, day, thrill and history steps, the variation and the bounds
NoWeatherPrediction(currentWait, minutesAhead, history, attraction, clock, u) ==
    LET hour == getHours(clock + minutesAhead)
        base == thrillAdjust(dayAdjust(timeAdjust(Rat(currentWait, 1), hour),
                                       getDay(clock + minutesAhead)), attraction)
        pc == historyAdjust([prediction |-> base, confidence |-> Rat(8, 10)],
                            history, hour)
    IN  [predicted_wait |->
             clampWait(MathRoundMul(pc.prediction, randomFactorNum(u), randomFactorDen)),
         confidence |-> roundConfidence(clampConfidence(pc.confidence))]

WeatherFactors == {"weather_conditions", "precipitation", "temperature_extreme"}

\* the calls that went past the weather lookup and found no snapshot
WithoutWeather ==
    {i \in DOMAIN tasks :
        /\ tasks[i].pc = "alternatives" \/ (tasks[i].pc = "done" /\ tasks[i].result # Null)
        /\ tasks[i].weather = Null}

\* C6: when the attraction resolves and no weather snapshot is available, a
\* Prediction is produced, every window's entry is the one computed without
\* any weather multiplier or weather confidence factor, and the factor list
\* has none of weather_conditions, precipitation, temperature_extreme
C6_NoWeatherNoEffect ==
    /\ \A i \in DoneTasks :
           (tasks[i].attraction # Null /\ ~tasks[i].historyError) =>
               tasks[i].result # Null
    /\ \A i \in WithoutWeather :
        /\ Range(tasks[i].factors) \cap WeatherFactors = {}
        /\ \A n \in DOMAIN request.timeWindows :
               tasks[i].predictions[windowKey(request.timeWindows[n])] \in
                   {NoWeatherPrediction(tasks[i].currentWait, request.timeWindows[n],
                        tasks[i].history, tasks[i].attraction, tasks[i].clock, u) :
                    u \in JitterDraws}

\* the weather lookup of an attraction of park p1 (which has a snapshot)
\* failed, and the Prediction was returned
C6_Witness ==
    \E i \in DoneTasks :
        /\ tasks[i].result # Null
        /\ tasks[i].weather = Null
        /\ selectWeather(weather_data, tasks[i].attraction.park_id) # Null
        /\ tasks[i].result.predictions # NoPredictions

\* C7: a requested window <= 0 gets no predicted wait, every requested
\* window > 0 gets its entry
C7_InvalidWindowRejected ==
    (Responded /\ request.response.status = 200) =>
        \A j \in DOMAIN ResponseData :
            \A n \in DOMAIN request.timeWindows :
                LET minutes == request.timeWindows[n]
                IN  (windowKey(minutes) \in DOMAIN ResponseData[j].predictions)
                        <=> minutes > 0

\* the request asked for a whole park and its list of attractions was read
BatchResponded ==
    /\ Responded
    /\ request.attraction_id = ""
    /\ request.park_id # ""
    /\ tasks # <<>>

\* C8: in a batch, a failed estimate never fails the batch nor removes
\* another attraction's prediction: the response is a success and holds
\* exactly one prediction for each attraction whose own estimate succeeded
C8_BatchIndependent ==
    BatchResponded =>
        /\ request.response.status = 200
        /\ \A i \in DOMAIN tasks :
               tasks[i].result # Null =>
                   Cardinality({j \in DOMAIN ResponseData :
                                   ResponseData[j] = tasks[i].result}) = 1
        /\ \A j \in DOMAIN ResponseData :
               \E i \in DOMAIN tasks :
                   tasks[i].result # Null /\ ResponseData[j] = tasks[i].result

\* a batch in which one estimate failed and another succeeded
C8_Witness ==
    /\ BatchResponded
    /\ \E i, j \in DOMAIN tasks : tasks[i].result = Null /\ tasks[j].result # Null
    /\ Len(ResponseData) = Cardinality({i \in DOMAIN tasks : tasks[i].result # Null})

\* what C9 asks of the alternatives of a Prediction p, on the table the
\* lookup was evaluated on
AlternativesOK(p, table) ==
    LET alts == p.alternative_attractions
        queried == table[p.attraction_id]
    IN  /\ Len(alts) <= AlternativesLimit
        /\ \A k \in DOMAIN alts :
            /\ table[alts[k]].current_status = "open"
            /\ table[alts[k]].park_id = queried.park_id
            /\ table[alts[k]].type = queried.type
            /\ table[alts[k]].wait_time # NoWait
            /\ table[alts[k]].wait_time < p.current_wait
            /\ alts[k] # p.attraction_id
        /\ \A k, l \in DOMAIN alts :
               k < l => table[alts[k]].wait_time <= table[alts[l]].wait_time

\* C9: the alternative lookup returns at most 3 ids, each of an open
\* attraction of the same park and type with a wait strictly below the
\* queried attraction's current wait, by ascending wait, and never the
\* queried attraction itself
C9_Alternatives ==
    [][\A i \in DOMAIN tasks :
          (tasks[i].pc = "alternatives" /\ i \in DOMAIN tasks'
              /\ tasks'[i].pc = "done") =>
                 AlternativesOK(tasks'[i].result, attractions)]_vars

\* two calls read the same attraction, history and weather, at the same
\* time of the clock, and their alternatives lookups both succeeded
SameInputs(i, j) ==
    /\ tasks[i].attractionId = tasks[j].attractionId
    /\ tasks[i].attraction = tasks[j].attraction
    /\ tasks[i].history = tasks[j].history
    /\ tasks[i].historyError = tasks[j].historyError
    /\ tasks[i].weather = tasks[j].weather
    /\ tasks[i].clock = tasks[j].clock
    /\ tasks[i].alternativesError = tasks[j].alternativesError

\* C10: with the random draw and the clock fixed, two estimates over
\* identical attraction, history, weather and windows produce identical
\* predicted waits, confidences, factor lists and alternative lists
C10_Deterministic ==
    \A i, j \in DoneTasks :
        (SameInputs(i, j) /\ tasks[i].result # Null /\ tasks[j].result # Null) =>
            /\ tasks[i].result.predictions = tasks[j].result.predictions
            /\ tasks[i].result.factors = tasks[j].result.factors
            /\ tasks[i].result.alternative_attractions =
                   tasks[j].result.alternative_attractions

\* the pre-jitter prediction of the same call with the precipitation of its
\* weather snapshot set to 0
DryPrediction ==
    preJitter(pin.currentWait, pin.minutesAhead, pin.history,
              [pin.weather EXCEPT !.precipitation = 0], pin.attraction,
              pin.clock).prediction

\* the calls made with a snapshot of more than 0.5 mm of precipitation
RainyCall == pout # Null /\ pin.weather # Null /\ pin.weather.precipitation > 5

IndoorTypes == {"dark_ride", "show"}

\* C11 as stated: for every current wait >= 0, precipitation > 0.5 gives a
\* strictly larger pre-jitter prediction for a dark_ride or show and a
\* strictly smaller one for any other type than no precipitation
C11_MonotonicWeather_Stated ==
    (RainyCall /\ pin.currentWait >= 0) =>
        IF pin.attraction.type \in IndoorTypes
        THEN RLess(DryPrediction, pout.blended.prediction)
        ELSE RLess(pout.blended.prediction, DryPrediction)

\* C11 as amended: the strict order holds for every current wait > 0; for a
\* current wait of 0 the two pre-jitter predictions are equal
C11_MonotonicWeather ==
    RainyCall =>
        /\ pin.currentWait > 0 =>
               IF pin.attraction.type \in IndoorTypes
               THEN RLess(DryPrediction, pout.blended.prediction)
               ELSE RLess(pout.blended.prediction, DryPrediction)
        /\ pin.currentWait = 0 => pout.blended.prediction = DryPrediction

C11_Witness ==
    /\ RainyCall
    /\ pin.currentWait = 40
    /\ pin.attraction.type = "roller_coaster"
    /\ pin.history # <<>>
    /\ RLess(pout.blended.prediction, DryPrediction)

\* the direct call of the end-to-end example: wait 40, thrill level 5,
\* roller_coaster, no weather, projected hour 13 on a weekday, and no
\* observation of the history within an hour of the projected hour
EndToEndCall ==
    /\ pout # Null
    /\ pin.currentWait = 40
    /\ pin.attraction = [type |-> "roller_coaster", thrill_level |-> 5]
    /\ pin.weather = Null
    /\ getHours(pin.clock + pin.minutesAhead) = 13
    /\ getDay(pin.clock + pin.minutesAhead) \in 1..5
    /\ \A k \in DOMAIN pin.history :
           Abs(getHours(pin.history[k].timestamp) - 13) > 1

\* C12: in the end-to-end example the predicted wait is in 54..60 for every
\* jitter draw and the confidence is exactly 0.72
C12_EndToEnd ==
    EndToEndCall => (pout.predicted_wait \in 54..60 /\ pout.confidence = 72)

ComfortCall == pout # Null /\ "temperature_2m" \in DOMAIN pin

\* C13: for every temperature, humidity and wind speed the comfort index is
\* an integer in [0,100], for the weather route's implementation and for
\* the exported utility, and the two return the same value
C13_ComfortIndexInRange ==
    ComfortCall =>
        /\ pout.comfort_index \in 0..100
        /\ pout.utils_comfort_index \in 0..100
        /\ pout.comfort_index = pout.utils_comfort_index

\* a reading so cold that the penalties exceed 100: both return the bound 0
C13_Witness ==
    /\ ComfortCall
    /\ pin.temperature_2m = Whole(-40)
    /\ pout.comfort_index = 0
    /\ pout.utils_comfort_index = 0

\* no penalty is triggered: 60 <= tempF <= 90, 30 <= humidity <= 70,
\* wind speed <= 5
NoPenalty ==
    LET tempF == toFahrenheit(pin.temperature_2m)
    IN  /\ ~RLess(tempF, Whole(60)) /\ ~RLess(Whole(90), tempF)
        /\ ~RLess(pin.relative_humidity_2m, Whole(30))
        /\ ~RLess(Whole(70), pin.relative_humidity_2m)
        /\ ~RLess(Whole(5), pin.wind_speed_10m)

\* the temperature is outside [60,90] F
TemperatureOutside ==
    LET tempF == toFahrenheit(pin.temperature_2m)
    IN  RLess(tempF, Whole(60)) \/ RLess(Whole(90), tempF)

\* C14: the comfort index is exactly 100 when no penalty is triggered, and
\* with the temperature outside [60,90] F it is strictly lower than at 75 F
\* with the same humidity and wind speed
C14_ComfortIndexPenalty ==
    ComfortCall =>
        /\ NoPenalty => pout.comfort_index = 100
        /\ TemperatureOutside =>
               pout.comfort_index <
                   calculateComfortIndex(Rat(215, 9), pin.relative_humidity_2m,
                                         pin.wind_speed_10m)

\* 95 F at 50 % humidity without wind gives 60
C14_Witness ==
    /\ ComfortCall
    /\ pin.temperature_2m = Whole(35)
    /\ pin.relative_humidity_2m = Whole(50)
    /\ pin.wind_speed_10m = Whole(0)
    /\ pout.comfort_index = 60
    /\ calculateComfortIndex(Rat(215, 9), Whole(50), Whole(0)) = 100

\* C16: for every current reading the crowd-impact multiplier is within
\* 0.6 to 1.2
C16_CrowdImpactInRange ==
    ComfortCall =>
        /\ ~RLess(pout.impact.crowd_impact, Rat(6, 10))
        /\ ~RLess(Rat(12, 10), pout.impact.crowd_impact)

\* a step of a prediction request: the request or one of its
\* generateWaitTimePrediction calls moves
PredictionStep == request' # request \/ tasks' # tasks

\* C15: producing a prediction is read-only: no step of a prediction
\* request, successful or failed, changes the attractions, wait_times or
\* weather_data tables
C15_ReadOnly ==
    [][PredictionStep =>
          /\ attractions' = attractions
          /\ wait_times' = wait_times
          /\ weather_data' = weather_data]_vars

\* a batch answered with one Prediction and one failed estimate, on tables
\* no report has touched
C15_Witness ==
    /\ Responded
    /\ request.response.status = 200
    /\ nreports = 0
    /\ \E i \in DOMAIN tasks : tasks[i].result = Null
    /\ \E i \in DOMAIN tasks : tasks[i].result # Null
    /\ attractions = InitAttractions
    /\ wait_times = InitWaitTimes
    /\ weather_data = InitWeatherData

StepCall == pout # Null /\ "minutesAhead" \in DOMAIN pin

\* the four cases of the time-of-day multiplier, in tenths
PeakHours == 11..15
EveningHours == 16..20
QuietHours == (0..9) \cup (21..23)
NeutralHours == {10}
HourCases == {PeakHours, EveningHours, QuietHours, NeutralHours}

TimeOfDayTenths(hour) ==
    IF hour \in PeakHours THEN 13
    ELSE IF hour \in EveningHours THEN 11
    ELSE IF hour \in QuietHours THEN 7
    ELSE 10

\* C17: the time-of-day multiplier depends only on the projected hour
\* (now + window): x1.3 for 11..15, x1.1 for 16..20, x0.7 for 0..9 and
\* 21..23, x1.0 for 10, and every hour 0..23 is in exactly one case
C17_TimeOfDay ==
    /\ \A h \in 0..23 : Cardinality({c \in HourCases : h \in c}) = 1
    /\ StepCall =>
        /\ pout.hour = getHours(pin.clock + pin.minutesAhead)
        /\ pout.timed = RMul(pout.base, TimeOfDayTenths(pout.hour), 10)

\* a call at 09:50 for the 15-minute window: the projected hour is 10 while
\* the current hour is 9, and the base is left as it is
C17_Witness ==
    /\ StepCall
    /\ getHours(pin.clock) = 9
    /\ pout.hour = 10
    /\ pin.currentWait = 40
    /\ pout.timed = Whole(40)

\* the temperature and the precipitation factor of the claim, as fractions
HeatFactor(w, type) ==
    IF w.temperature > 30
    THEN IF type = "dark_ride" THEN Rat(12, 10) ELSE Rat(9, 10)
    ELSE Whole(1)
RainFactor(w, type) ==
    IF w.precipitation > 0
    THEN IF type \in IndoorTypes THEN Rat(15, 10) ELSE Rat(6, 10)
    ELSE Whole(1)
RainConfidence(w, type) ==
    IF w.precipitation > 0
    THEN IF type \in IndoorTypes THEN Rat(9, 10) ELSE Rat(8, 10)
    ELSE Whole(1)
Times(r, f) == RMul(r, f.n, f.d)

\* C18: with a weather snapshot the base is multiplied by the product of
\* the temperature factor (if temperature > 30) and the precipitation
\* factor (if precipitation > 0), the confidence by the precipitation's
\* confidence factor; a condition that does not hold changes nothing
C18_WeatherCompounds ==
    (StepCall /\ pin.weather # Null) =>
        /\ pout.weathered.prediction =
               Times(Times(pout.thrilled, HeatFactor(pin.weather, pin.attraction.type)),
                     RainFactor(pin.weather, pin.attraction.type))
        /\ pout.weathered.confidence =
               Times(Rat(8, 10), RainConfidence(pin.weather, pin.attraction.type))

\* hot and raining, for a dark ride: x1.2 x1.5 = x1.8, confidence 0.72
C18_Witness ==
    /\ StepCall
    /\ pin.weather = [temperature |-> 35, precipitation |-> 8]
    /\ pin.attraction.type = "dark_ride"
    /\ pin.currentWait = 40
    /\ pout.weathered.prediction = RMul(pout.thrilled, 18, 10)
    /\ pout.weathered.confidence = Rat(72, 100)

\* the observations of the history whose hour is within 1 of the hour
NearHour(history, hour) ==
    {k \in DOMAIN history : Abs(getHours(history[k].timestamp) - hour) <= 1}

RECURSIVE SumOver(_, _)
SumOver(history, K) ==
    IF K = {} THEN 0
    ELSE LET k == CHOOSE x \in K : TRUE
         IN  history[k].wait_minutes + SumOver(history, K \ {k})

\* C19: if an observation is within +/-1 hour of the projected hour, base
\* becomes 0.7 base + 0.3 (mean of exactly those observations) and the
\* confidence is multiplied by 1.1; otherwise, also for an empty history,
\* base is not blended and the confidence is multiplied by 0.9
C19_HistoricalBlend ==
    StepCall =>
        LET K == NearHour(pin.history, pout.hour)
        IN  IF K # {}
            THEN /\ pout.blended.prediction =
                        RAdd(RMul(pout.weathered.prediction, 7, 10),
                             RMul(Rat(SumOver(pin.history, K), Cardinality(K)), 3, 10))
                 /\ pout.blended.confidence = RMul(pout.weathered.confidence, 11, 10)
            ELSE /\ pout.blended.prediction = pout.weathered.prediction
                 /\ pout.blended.confidence = RMul(pout.weathered.confidence, 9, 10)

\* the calls that computed their factor list
WithFactors ==
    {i \in DOMAIN tasks :
        tasks[i].pc = "alternatives" \/ (tasks[i].pc = "done" /\ tasks[i].result # Null)}

\* a window of the request whose projected time is on another day of the
\* week kind (weekend or not) or in another hour band (peak or not) than now
ProjectedElsewhere(clock) ==
    \E n \in DOMAIN request.timeWindows :
        LET futureTime == clock + request.timeWindows[n]
        IN  \/ (getDay(futureTime) \in {0, 6}) # (getDay(clock) \in {0, 6})
            \/ (getHours(futureTime) \in 11..15) # (getHours(clock) \in 11..15)

\* C20: the factor list of a Prediction always has historical_patterns and
\* time_of_day, has weekend iff the current day is Saturday or Sunday and
\* peak_hours iff the current hour is in 11..15, whatever the windows; the
\* Prediction carries that one list
C20_FactorsOncePerPrediction ==
    \A i \in WithFactors :
        LET factors == Range(tasks[i].factors)
        IN  /\ {"historical_patterns", "time_of_day"} \subseteq factors
            /\ ("weekend" \in factors) <=> (getDay(tasks[i].clock) \in {0, 6})
            /\ ("peak_hours" \in factors) <=> (getHours(tasks[i].clock) \in 11..15)
            /\ tasks[i].pc = "done" => tasks[i].result.factors = tasks[i].factors

\* a Prediction made on Sunday 23:30 with a window projected on Monday: its
\* factor list has weekend
C20_Witness ==
    \E i \in WithFactors :
        /\ tasks[i].pc = "done"
        /\ ProjectedElsewhere(tasks[i].clock)
        /\ "weekend" \in Range(tasks[i].result.factors)
        /\ \E n \in DOMAIN request.timeWindows :
               getDay(tasks[i].clock + request.timeWindows[n]) = 1

\* the multiplier of each rule of the crowd impact: the rule's factor when
\* its condition holds on the reading, 1 otherwise
RainRule(current) == IF current.precipitation > 5 THEN Rat(7, 10) ELSE Whole(1)
HotRule(current) ==
    IF RLess(Whole(95), toFahrenheit(current.temperature_2m))
    THEN Rat(8, 10) ELSE Whole(1)
ColdRule(current) ==
    IF RLess(toFahrenheit(current.temperature_2m), Whole(40))
    THEN Rat(6, 10) ELSE Whole(1)
PerfectRule(current) ==
    LET tempF == toFahrenheit(current.temperature_2m)
    IN  IF /\ ~RLess(tempF, Whole(70)) /\ ~RLess(Whole(85), tempF)
           /\ current.precipitation = 0
        THEN Rat(12, 10) ELSE Whole(1)

WindClosure == "Outdoor roller coasters may close due to high winds"

\* C21: the crowd impact is 1.0 times the multipliers of all the rules
\* whose condition holds (x0.7 rain, x0.8 hot, x0.6 cold, x1.2 perfect);
\* wind speed > 35 adds a closure warning and does not change it
C21_CrowdImpactProduct ==
    ComfortCall =>
        /\ pout.impact.crowd_impact =
               Times(Times(Times(Times(Whole(1), RainRule(pin)), HotRule(pin)),
                           ColdRule(pin)), PerfectRule(pin))
        /\ (WindClosure \in Range(pout.impact.attraction_closures))
               <=> RLess(Whole(35), pin.wind_speed_10m)
        /\ pout.impact.crowd_impact =
               analyzeWeatherImpact([pin EXCEPT !.wind_speed_10m = Whole(0)]).crowd_impact

\* rain on a cold day with a wind of 36 km/h: 0.7 x 0.6 and the closure
C21_Witness ==
    /\ ComfortCall
    /\ pin.precipitation = 8
    /\ pin.temperature_2m = Whole(4)
    /\ pin.wind_speed_10m = Whole(36)
    /\ pout.impact.crowd_impact = Rat(42, 100)
    /\ WindClosure \in Range(pout.impact.attraction_closures)

AlertsOfType(type) == {k \in DOMAIN pout.alerts : pout.alerts[k].type = type}

\* one of the first 2 hourly forecast values is above 0.5 mm
RainInNextTwoHours ==
    \E k \in DOMAIN pin.hourly_precipitation :
        k <= 2 /\ pin.hourly_precipitation[k] > 5

\* C22: the alerts have a wind advisory iff wind speed > 30, of severity
\* high iff wind speed > 40 and medium otherwise, a rain alert (medium,
\* 120 minutes) iff one of the first 2 hourly precipitation values is
\* > 0.5, and nothing else; with the wind closure warning of the impact
\* there is always a wind advisory
C22_WeatherAlerts ==
    ComfortCall =>
        /\ Cardinality(AlertsOfType("wind_advisory")) =
               IF RLess(Whole(30), pin.wind_speed_10m) THEN 1 ELSE 0
        /\ \A k \in AlertsOfType("wind_advisory") :
               pout.alerts[k].severity =
                   IF RLess(Whole(40), pin.wind_speed_10m) THEN "high" ELSE "medium"
        /\ Cardinality(AlertsOfType("heavy_rain")) =
               IF RainInNextTwoHours THEN 1 ELSE 0
        /\ \A k \in AlertsOfType("heavy_rain") :
               pout.alerts[k].severity = "medium" /\ pout.alerts[k].duration = 120
        /\ \A k \in DOMAIN pout.alerts :
               pout.alerts[k].type \in {"wind_advisory", "heavy_rain"}
        /\ (WindClosure \in Range(pout.impact.attraction_closures))
               => AlertsOfType("wind_advisory") # {}

\* wind of 36 km/h (closure warning, advisory of medium severity) with rain
\* forecast only for the third hour: no rain alert
C22_Witness ==
    /\ ComfortCall
    /\ pin.wind_speed_10m = Whole(36)
    /\ pin.hourly_precipitation = <<0, 0, 8>>
    /\ WindClosure \in Range(pout.impact.attraction_closures)
    /\ Len(pout.alerts) = 1
    /\ pout.alerts[1].severity = "medium"

\* the weather requests of a park that have been answered after the park
\* was found
AnsweredParkRequests ==
    {r \in DOMAIN weatherRoute.requests :
        LET req == weatherRoute.requests[r]
        IN  /\ req.pc = "done"
            /\ req.park_id \in InitParks
            /\ req.response # weatherError(404, "PARK_NOT_FOUND")}

\* the latest snapshot stored when the request looked was less than 10
\* minutes old
StoredFresh(req) ==
    req.stored # Null /\ req.checkedAt - req.stored.timestamp < FreshnessMinutes

\* C23: a request that finds the latest stored snapshot less than 10
\* minutes old returns it, without a fetch or an insert; otherwise the
\* external API is fetched, and on success exactly one snapshot is
\* appended and returned, on failure the answer is WEATHER_SERVICE_ERROR
\* and nothing is stored
C23_FreshnessWindow ==
    weatherRoute # Null =>
        \A r \in AnsweredParkRequests :
            LET req == weatherRoute.requests[r]
            IN  IF StoredFresh(req)
                THEN /\ req.fetches = 0
                     /\ req.inserts = 0
                     /\ req.response.success
                     /\ req.response.data.current = req.stored.current_conditions
                     /\ req.response.data.last_updated = req.stored.timestamp
                ELSE /\ req.fetches = 1
                     /\ IF req.weatherData # Null
                        THEN /\ req.inserts = 1
                             /\ req.response = weatherSuccess(req.weatherData)
                             /\ \E k \in DOMAIN weather_data :
                                    /\ weather_data[k].park_id = req.park_id
                                    /\ weather_data[k].current_conditions =
                                           req.weatherData.current
                                    /\ weather_data[k].timestamp >= req.checkedAt
                        ELSE /\ req.inserts = 0
                             /\ req.response = weatherError(503, "WEATHER_SERVICE_ERROR")

\* C26: under any interleaving of weather requests for one park, two
\* snapshots of the park are never stored less than 10 minutes apart
C26_OneSnapshotPerWindow ==
    \A i, j \in DOMAIN weather_data :
        (i < j /\ weather_data[i].park_id = weather_data[j].park_id) =>
            Abs(weather_data[j].timestamp - weather_data[i].timestamp)
                >= FreshnessMinutes


(***************************************************************************)
(* Specification of the reports: POST /api/wait-times alone, several       *)
(* reports handled concurrently                                            *)
(***************************************************************************)
MaxConcurrentReports == 2

\* the observations of an attraction that carry its latest timestamp
latestObservations(rows, id) ==
    {i \in DOMAIN rows :
        /\ rows[i].attraction_id = id
        /\ \A j \in DOMAIN rows :
               rows[j].attraction_id = id => rows[j].timestamp <= rows[i].timestamp}

\* tables in which every attraction with observations stores its latest one
ReportInitAttractions ==
    [id \in DOMAIN InitAttractions |->
        IF latestObservations(InitWaitTimes, id) = {}
        THEN InitAttractions[id]
        ELSE [InitAttractions[id] EXCEPT !.wait_time =
                 InitWaitTimes[CHOOSE i \in latestObservations(InitWaitTimes, id) : TRUE]
                     .wait_minutes]]

ReportClock == At(12, 12, 50)

\* JSON bodies: accepted ones (two waits, one with a timestamp of its own),
\* and rejected ones (no attraction_id, wait_minutes not a number, out of
\* range on either side), and one naming an attraction that does not exist
ConcurrentReportBodies ==
    [attraction_id : {"a1"}, is_number : {TRUE}, wait_minutes : {0, 45},
     has_timestamp : {FALSE}, timestamp : {0}]
    \cup [attraction_id : {"a1"}, is_number : {TRUE}, wait_minutes : {300},
          has_timestamp : {TRUE}, timestamp : {At(10, 9, 0)}]
    \cup [attraction_id : {""}, is_number : {TRUE}, wait_minutes : {45},
          has_timestamp : {FALSE}, timestamp : {0}]
    \cup [attraction_id : {"a1"}, is_number : {FALSE}, wait_minutes : {0},
          has_timestamp : {FALSE}, timestamp : {0}]
    \cup [attraction_id : {"a1"}, is_number : {TRUE}, wait_minutes : {-1, 301},
          has_timestamp : {FALSE}, timestamp : {0}]
    \cup [attraction_id : {"zz"}, is_number : {TRUE}, wait_minutes : {45},
          has_timestamp : {FALSE}, timestamp : {0}]

ConcurrentReport(body) ==
    /\ nreports < MaxConcurrentReports
    /\ Receive(body)

ReportInit ==
    /\ attractions = ReportInitAttractions
    /\ wait_times = InitWaitTimes
    /\ weather_data = InitWeatherData
    /\ now = ReportClock
    /\ request = IdleRequest
    /\ tasks = <<>>
    /\ reports = <<>>
    /\ nreports = 0
    /\ nticks = 0
    /\ mathRandom = JitterDraws
    /\ pin = Null
    /\ pout = Null
    /\ OtherInit

ReportNext ==
    \/ \E body \in ConcurrentReportBodies : ConcurrentReport(body)
    \/ \E r \in DOMAIN reports : InsertReport(r)
    \/ \E r \in DOMAIN reports : UpdateAttraction(r)
    \/ Tick

ReportSpec == ReportInit /\ [][ReportNext]_vars

(***************************************************************************)
(* Properties of the reports                                               *)
(***************************************************************************)
\* the bodies the route has to reject with 400
MustReject(body) ==
    \/ body.attraction_id = ""
    \/ ~body.is_number
    \/ body.wait_minutes < 0
    \/ body.wait_minutes > 300

\* the reports whose insert went through: waiting for the update, or answered 201
InsertedReports ==
    {r \in DOMAIN reports :
        \/ reports[r].pc = "update"
        \/ reports[r].pc = "done" /\ reports[r].response.status = 201}

RejectedReports ==
    {r \in DOMAIN reports : reports[r].pc = "done" /\ reports[r].response.status # 201}

\* C24: a report with no attraction_id, a wait_minutes that is not a number
\* or outside [0, 300] is answered 400, a failed insert 500; the log
\* wait_times keeps its earlier rows and grows by exactly one row per report
\* whose insert went through, each such row being the row of one of these
\* reports, and an attraction's wait_time differs from its initial value only
\* by the wait_minutes of such a report: rejected reports change neither.
C24_RejectedReportChangesNothing ==
    /\ \A r \in DOMAIN reports :
           MustReject(reports[r].body) =>
               reports[r].pc = "done" /\ reports[r].response.status = 400
    /\ \A r \in RejectedReports : reports[r].response.status \in {400, 500}
    /\ Len(wait_times) = Len(InitWaitTimes) + Cardinality(InsertedReports)
    /\ SubSeq(wait_times, 1, Len(InitWaitTimes)) = InitWaitTimes
    /\ \A i \in DOMAIN wait_times :
           i > Len(InitWaitTimes) =>
               \E r \in InsertedReports :
                   /\ wait_times[i].attraction_id = reports[r].body.attraction_id
                   /\ wait_times[i].wait_minutes = reports[r].body.wait_minutes
    /\ \A id \in DOMAIN attractions :
           \/ attractions[id] = ReportInitAttractions[id]
           \/ \E r \in InsertedReports :
                  /\ reports[r].body.attraction_id = id
                  /\ attractions[id] =
                         [ReportInitAttractions[id] EXCEPT
                              !.wait_time = reports[r].body.wait_minutes]

\* a report rejected by the validation, a report whose insert failed and an
\* accepted report have all been answered
C24_Witness ==
    /\ Len(reports) = MaxConcurrentReports
    /\ \E r \in RejectedReports : reports[r].response.status = 500
                                   /\ reports[r].body.attraction_id = "a1"
    /\ \E r \in DOMAIN reports : reports[r].pc = "done" /\ reports[r].response.status = 201

NoReportInFlight == \A r \in DOMAIN reports : reports[r].pc = "done"

\* C25: whenever every report received has been answered, each attraction
\* that has observations stores in wait_time the wait_minutes of an
\* observation carrying its latest timestamp.
C25_WaitTimeIsLatestObservation ==
    NoReportInFlight =>
        \A id \in DOMAIN attractions :
            latestObservations(wait_times, id) # {} =>
                \E i \in latestObservations(wait_times, id) :
                    attractions[id].wait_time = wait_times[i].wait_minutes

(***************************************************************************)
(* useAuth and usePermissions (src/lib/auth/index.tsx)                      *)
(***************************************************************************)
MaxAuthEvents == 3

AuthUsers == {"u1", "u2"}
SubscriptionTiers == {"free", "premium", "family", "enterprise"}

\* a Supabase session of a user
sessionOf(userId) == [user |-> [id |-> userId]]
AuthSessions == {sessionOf(u) : u \in AuthUsers} \cup {Null}

\* session?.user ?? null
userOf(session) == IF session = Null THEN Null ELSE session.user

\* the rows the users table can hold for a user
userRows(userId) == {[id |-> userId, subscription_tier |-> t] : t \in SubscriptionTiers}

\* fetchUserProfile is called: the select on users is in flight
startFetch(fetches, userId) == Append(fetches, [userId |-> userId])

\* getInitialSession: the await of supabase.auth.getSession() resolves
GetInitialSession ==
    /\ auth # Null
    /\ auth.initial = "getSession"
    /\ \E error \in BOOLEAN :
         IF error
         THEN auth' = [auth EXCEPT !.initial = "done", !.loading = FALSE]
         ELSE IF userOf(auth.current) # Null
              THEN auth' = [auth EXCEPT !.initial = "done",
                                !.session = auth.current,
                                !.user = userOf(auth.current),
                                !.fetches = startFetch(auth.fetches, auth.current.user.id)]
              ELSE auth' = [auth EXCEPT !.initial = "done",
                                !.session = auth.current,
                                !.user = Null,
                                !.loading = FALSE]
    /\ UNCHANGED <<storeVars, now, routeVars, pureVars, weatherRoute, component, debounced>>

\* the callback of onAuthStateChange, up to its await
AuthStateChange(session) ==
    /\ auth # Null
    /\ auth.nevents < MaxAuthEvents
    /\ IF userOf(session) # Null
       THEN auth' = [auth EXCEPT !.nevents = @ + 1, !.current = session,
                         !.session = session, !.user = userOf(session),
                         !.fetches = startFetch(auth.fetches, session.user.id),
                         !.signedOut = FALSE]
       ELSE auth' = [auth EXCEPT !.nevents = @ + 1, !.current = session,
                         !.session = session, !.user = Null,
                         !.profile = Null, !.loading = FALSE,
                         !.signedOut = TRUE]
    /\ UNCHANGED <<storeVars, now, routeVars, pureVars, weatherRoute, component, debounced>>

\* fetchUserProfile: the select on users resolves, in any order; then the
\* caller's setLoading(false)
FetchUserProfile(f) ==
    /\ auth # Null
    /\ f \in DOMAIN auth.fetches
    /\ LET userId == auth.fetches[f].userId
           rest == SubSeq(auth.fetches, 1, f - 1)
                       \o SubSeq(auth.fetches, f + 1, Len(auth.fetches))
       IN  \E error \in BOOLEAN :
             IF error
             THEN auth' = [auth EXCEPT !.fetches = rest, !.loading = FALSE]
             ELSE \E data \in userRows(userId) :
                    auth' = [auth EXCEPT !.fetches = rest, !.profile = data,
                                  !.loading = FALSE]
    /\ UNCHANGED <<storeVars, now, routeVars, pureVars, weatherRoute, component, debounced>>

\* usePermissions: the tier read through profile?.subscription_tier
tierOf(profile) == IF profile = Null THEN "undefined" ELSE profile.subscription_tier

usePermissions(profile) ==
    [canCreateGroups |-> tierOf(profile) # "free",
     canExportData |-> tierOf(profile) # "free",
     canAccessPremiumFeatures |->
         (IF tierOf(profile) = "undefined" THEN "free" ELSE tierOf(profile))
             \in {"premium", "family", "enterprise"},
     canManageTeam |-> tierOf(profile) = "enterprise",
     maxGroupMembers |-> IF tierOf(profile) = "free" THEN 3
                         ELSE IF tierOf(profile) = "premium" THEN 10
                         ELSE IF tierOf(profile) = "family" THEN 6
                         ELSE 50]

\* the hook just mounted: its four states, getInitialSession waiting for
\* getSession, the session Supabase holds, no event delivered yet
AuthInit ==
    /\ attractions = InitAttractions
    /\ wait_times = InitWaitTimes
    /\ weather_data = InitWeatherData
    /\ now = 0
    /\ request = IdleRequest
    /\ tasks = <<>>
    /\ reports = <<>>
    /\ nreports = 0
    /\ nticks = 0
    /\ mathRandom = JitterDraws
    /\ pin = Null
    /\ pout = Null
    /\ weatherRoute = Null
    /\ component = Null
    /\ debounced = Null
    /\ \E current \in AuthSessions :
         auth = [user |-> Null, session |-> Null, loading |-> TRUE, profile |-> Null,
                 current |-> current, initial |-> "getSession", fetches |-> <<>>,
                 nevents |-> 0, signedOut |-> FALSE]

AuthNext ==
    \/ GetInitialSession
    \/ \E session \in AuthSessions : AuthStateChange(session)
    \/ \E f \in DOMAIN auth.fetches : FetchUserProfile(f)

AuthSpec == AuthInit /\ [][AuthNext]_vars

(***************************************************************************)
(* Properties of useAuth and usePermissions                                *)
(***************************************************************************)
\* C27: in every state of the hook a profile that is not null comes with a
\* user that is not null and whose id is the profile's id, and once a
\* sign-out event was delivered the profile stays null until the next
\* sign-in event.
C27_ProfileBelongsToUser ==
    /\ auth.profile # Null => auth.user # Null /\ auth.profile.id = auth.user.id
    /\ auth.signedOut => auth.profile = Null

\* the permissions of the free tier
FreePermissions == usePermissions([id |-> "u1", subscription_tier |-> "free"])

\* C28: whatever the hook's profile is, canCreateGroups and canExportData
\* are granted only together with canAccessPremiumFeatures, and without a
\* profile the permissions are those of the free tier.
C28_PermissionsConsistent ==
    LET p == usePermissions(auth.profile)
    IN  /\ (p.canCreateGroups \/ p.canExportData) => p.canAccessPremiumFeatures
        /\ auth.profile = Null => p = FreePermissions

(***************************************************************************)
(* The component WaitTimePredictions (src/unnamed/part_003)                 *)
(***************************************************************************)
MaxSelections == 3

ShownAttractions == {"a1", "a2"}
FetchOutcomes == {"predictions", "empty", "throws"}

\* the effect of [attractionId]: setLoading(true), and the fetch is in flight
runEffect(c, attractionId) ==
    [c EXCEPT !.attractionId = attractionId, !.loading = TRUE,
              !.started = @ + 1, !.finished = Null,
              !.fetches = Append(@, [attractionId |-> attractionId, n |-> c.started + 1])]

\* the parent renders the component with another attractionId
ChangeAttraction(attractionId) ==
    /\ component # Null
    /\ component.started <= MaxSelections
    /\ attractionId # component.attractionId
    /\ component' = runEffect(component, attractionId)
    /\ UNCHANGED <<storeVars, now, routeVars, pureVars, weatherRoute, auth, debounced>>

\* fetchPredictions after its awaits: the answer of one of the fetches in
\* flight arrives, in any order
FetchPredictions(f) ==
    /\ component # Null
    /\ f \in DOMAIN component.fetches
    /\ LET fetch == component.fetches[f]
           rest == SubSeq(component.fetches, 1, f - 1)
                       \o SubSeq(component.fetches, f + 1, Len(component.fetches))
           finished(outcome) ==
               IF fetch.n = component.started THEN outcome ELSE component.finished
       IN  \E outcome \in FetchOutcomes :
             component' =
                 CASE outcome = "predictions" ->
                          [component EXCEPT !.fetches = rest, !.loading = FALSE,
                               !.finished = finished(outcome),
                               !.prediction = [attraction_id |-> fetch.attractionId]]
                   [] outcome = "empty" ->
                          [component EXCEPT !.fetches = rest, !.loading = FALSE,
                               !.finished = finished(outcome),
                               !.error = "No predictions available"]
                   [] outcome = "throws" ->
                          [component EXCEPT !.fetches = rest, !.loading = FALSE,
                               !.finished = finished(outcome),
                               !.error = "Failed to load predictions"]
    /\ UNCHANGED <<storeVars, now, routeVars, pureVars, weatherRoute, auth, debounced>>

\* what the component renders
render(c) ==
    IF c.loading
    THEN [shows |-> "spinner"]
    ELSE IF c.error # "" \/ c.prediction = Null
         THEN [shows |-> "message",
               text |-> IF c.error # "" THEN c.error ELSE "No predictions available"]
         ELSE [shows |-> "prediction", prediction |-> c.prediction]

\* the component mounted with an attractionId: the three states (error ""
\* stands for the null error) and the first run of the effect
ComponentInit ==
    /\ attractions = InitAttractions
    /\ wait_times = InitWaitTimes
    /\ weather_data = InitWeatherData
    /\ now = 0
    /\ request = IdleRequest
    /\ tasks = <<>>
    /\ reports = <<>>
    /\ nreports = 0
    /\ nticks = 0
    /\ mathRandom = JitterDraws
    /\ pin = Null
    /\ pout = Null
    /\ weatherRoute = Null
    /\ auth = Null
    /\ debounced = Null
    /\ \E attractionId \in ShownAttractions :
         component = runEffect([attractionId |-> attractionId, prediction |-> Null,
                                loading |-> TRUE, error |-> "", started |-> 0,
                                finished |-> Null, fetches |-> <<>>],
                               attractionId)

ComponentNext ==
    \/ \E attractionId \in ShownAttractions : ChangeAttraction(attractionId)
    \/ \E f \in DOMAIN component.fetches : FetchPredictions(f)

ComponentSpec == ComponentInit /\ [][ComponentNext]_vars

(***************************************************************************)
(* Properties of the component                                             *)
(***************************************************************************)
\* C29: when the fetch started for the current attractionId has answered
\* with predictions and no fetch is in flight, the component renders the
\* prediction of the current attraction.
C29_ShowsCurrentPrediction ==
    (component.fetches = <<>> /\ component.finished = "predictions") =>
        render(component) =
            [shows |-> "prediction",
             prediction |-> [attraction_id |-> component.attractionId]]

(***************************************************************************)
(* debounce (src/lib/utils/index.ts)                                       *)
(***************************************************************************)
MaxCalls == 3
MaxElapsed == 5

DebounceWaits == {1, 2}
DebounceArgs == {"x", "y"}

\* the timers of the runtime: clearTimeout drops the timer of that id (none
\* when it has fired, was cleared or never existed), setTimeout adds one
clearTimeout_kept(timers, id) == timers

clearTimeout(timers, id) == {t \in timers : t.id # id}

setTimeout(timers, id, args, due) == timers \cup {[id |-> id, args |-> args, due |-> due]}

\* the function returned by debounce is called with args
CallDebounced(args) ==
    /\ debounced # Null
    /\ debounced.ncalls < MaxCalls
    /\ LET id == debounced.ncalls + 1
       IN  debounced' =
               [debounced EXCEPT
                    !.ncalls = id,
                    !.timeout = id,
                    !.timers = setTimeout(clearTimeout(debounced.timers, debounced.timeout),
                                          id, args, debounced.clock + debounced.wait),
                    !.events = Append(@, [kind |-> "call", args |-> args,
                                          at |-> debounced.clock])]
    /\ UNCHANGED <<storeVars, now, routeVars, pureVars, weatherRoute, auth, component>>

\* a timer that is due runs its callback: func(...args)
TimerFires ==
    /\ debounced # Null
    /\ \E t \in debounced.timers :
         /\ t.due <= debounced.clock
         /\ debounced' =
                [debounced EXCEPT
                     !.timers = @ \ {t},
                     !.events = Append(@, [kind |-> "invoke", args |-> t.args,
                                           at |-> debounced.clock])]
    /\ UNCHANGED <<storeVars, now, routeVars, pureVars, weatherRoute, auth, component>>

\* a millisecond passes; a timer may run later than it is due
Elapse ==
    /\ debounced # Null
    /\ debounced.clock < MaxElapsed
    /\ debounced' = [debounced EXCEPT !.clock = @ + 1]
    /\ UNCHANGED <<storeVars, now, routeVars, pureVars, weatherRoute, auth, component>>

\* debounce(func, wait) has returned: no timer yet
DebounceInit ==
    /\ attractions = InitAttractions
    /\ wait_times = InitWaitTimes
    /\ weather_data = InitWeatherData
    /\ now = 0
    /\ request = IdleRequest
    /\ tasks = <<>>
    /\ reports = <<>>
    /\ nreports = 0
    /\ nticks = 0
    /\ mathRandom = JitterDraws
    /\ pin = Null
    /\ pout = Null
    /\ weatherRoute = Null
    /\ auth = Null
    /\ component = Null
    /\ \E wait \in DebounceWaits :
         debounced = [wait |-> wait, timeout |-> 0, timers |-> {}, clock |-> 0,
                      ncalls |-> 0, events |-> <<>>]

DebounceNext ==
    \/ \E args \in DebounceArgs : CallDebounced(args)
    \/ TimerFires
    \/ Elapse

DebounceSpec == DebounceInit /\ [][DebounceNext]_vars

(***************************************************************************)
(* Properties of debounce                                                  *)
(***************************************************************************)
\* C30: every invocation of func directly follows a call of the debounced
\* function (so no two invocations without a call in between, and none
\* before a further call), carries that call's arguments and happens at
\* least wait after it; and at most one invocation is pending, which is the
\* one of the last call: an earlier pending one was cancelled.
C30_Debounce ==
    /\ \A i \in DOMAIN debounced.events :
           debounced.events[i].kind = "invoke" =>
               /\ i > 1
               /\ debounced.events[i - 1].kind = "call"
               /\ debounced.events[i].args = debounced.events[i - 1].args
               /\ debounced.events[i].at >= debounced.events[i - 1].at + debounced.wait
    /\ Cardinality(debounced.timers) <= 1
    /\ \A t \in debounced.timers :
           LET last == debounced.events[Len(debounced.events)]
           IN  /\ last.kind = "call"
               /\ t.args = last.args
               /\ t.due = last.at + debounced.wait

\* a burst of two calls with different arguments, made while the first
\* invocation was still pending, was followed by one invocation
C30_Witness ==
    \E i \in DOMAIN debounced.events :
        /\ i >= 3
        /\ debounced.events[i].kind = "invoke"
        /\ debounced.events[i - 1].kind = "call"
        /\ debounced.events[i - 2].kind = "call"
        /\ debounced.events[i - 1].args # debounced.events[i - 2].args
        /\ debounced.events[i - 1].at < debounced.events[i - 2].at + debounced.wait
=============================================================================
